---- MODULE Spec2Model ----
(***************************************************************************)
(* Routing, planning and orchestration logic of the Copilot Studio         *)
(* extensibility sample (samples/copilot-studio-extensibility/python).     *)
(*                                                                         *)
(* The model starts from a worker process whose services were constructed  *)
(* (services.py reads os.getenv without importing os; the model takes the  *)
(* name as resolved, otherwise no service object ever exists).             *)
(*                                                                         *)
(* Conventions.                                                            *)
(*  - A Python string is a TLA+ string; `k in s` is contains(s, k) and     *)
(*    s.lower() is lower(s), both computed character by character.         *)
(*  - A float confidence c is the integer 10*c (tenths): the only values   *)
(*    the code computes are 0.5, 1.0 and min(0.6 + n*0.1, 1.0), which in   *)
(*    IEEE doubles are exactly 0.6, 0.7, 0.8, 0.9, 1.0.                    *)
(*  - A dataclass instance is a record of its fields; an Enum member is    *)
(*    its member name, its JSON form is value_of[member].                  *)
(*  - A dict is a function from string keys; {} is EmptyDict.  None held   *)
(*    where a dict is expected is NoneDict.                                *)
(*  - A call that can raise returns [raised, value, log]: raised is the    *)
(*    exception class ("" when it returned), value the returned object (or *)
(*    str(ex)), log the lines written with logger.error.                   *)
(***************************************************************************)
EXTENDS Integers, Sequences, FiniteSets, TLC

VARIABLES
    entry,            \* the function of the worker that this run exercises
    routing_service,  \* worker.py global: the AgentRoutingService instance (its fields)
    conversation_request, \* the ConversationRequest under decision
    executions,       \* the executions of determine_routing on it: [self, decision]
    other_decision,   \* what determine_routing returned last for another request
    activity_input,   \* the JSON text handed to an activity
    activity_result,  \* <<>> or <<r>>: the activity's [raised, value, log]
    argument,         \* the object handed to a helper function called on its own
    returned,         \* <<>> or <<v>>: what the helper function returned
    orchestration,    \* the orchestration instance: its position and local variables
    copilot_studio,   \* how the Copilot Studio endpoint answers a posted message
    concurrent,       \* a second instance of the orchestrator, run along with the first
    replaying,        \* <<>> or <<o>>: the instance as recorded when its replay began
                      \* (its history), and the surroundings it was recorded in
    task_hub,         \* portable samples: the scheduler's clock, tasks and events
    error_log         \* lines written with logger.error, in order

vars == <<entry, routing_service, conversation_request, executions, other_decision,
          activity_input, activity_result, argument, returned, orchestration,
          copilot_studio, concurrent, replaying, task_hub, error_log>>

\* what a run is started with
inputs == <<entry, conversation_request, activity_input, argument, copilot_studio>>

---------------------------------------------------------------------------
(* Bounds of the model *)

\* a message or a task description is made of at most MaxWords phrases
MaxWords == 2
\* determine_routing is executed at most MaxExecutions times on one request
MaxExecutions == 2
\* a capability is supported by at most MaxSupportedBy agents
MaxSupportedBy == 2
\* a MultiAgentRequest names at most MaxCapabilities capabilities
MaxCapabilities == 2

---------------------------------------------------------------------------
(* Python strings *)

None == "<None>"
EmptyDict == <<>>
NoneDict == [None |-> None]

\* str(x) as an f-string renders it
str(x) == IF x = None THEN "None" ELSE x

\* Python `d or {}` for d a dict or None
or_empty(d) == IF d = NoneDict THEN EmptyDict ELSE d

\* {**a, **b}
merged(a, b) == [k \in DOMAIN a \cup DOMAIN b |-> IF k \in DOMAIN b THEN b[k] ELSE a[k]]

\* dict.get(key, default)
get(d, key, default) == IF key \in DOMAIN d THEN d[key] ELSE default

CharAt(s, i) == SubSeq(s, i, i)

\* the characters str.lower() changes, among those the modelled texts use
LowerOf ==
    ("A" :> "a") @@ ("B" :> "b") @@ ("C" :> "c") @@ ("D" :> "d") @@ ("E" :> "e") @@ ("F" :> "f") @@
    ("G" :> "g") @@ ("H" :> "h") @@ ("I" :> "i") @@ ("J" :> "j") @@ ("K" :> "k") @@ ("L" :> "l") @@
    ("M" :> "m") @@ ("N" :> "n") @@ ("O" :> "o") @@ ("P" :> "p") @@ ("Q" :> "q") @@ ("R" :> "r") @@
    ("S" :> "s") @@ ("T" :> "t") @@ ("U" :> "u") @@ ("V" :> "v") @@ ("W" :> "w") @@ ("X" :> "x") @@
    ("Y" :> "y") @@ ("Z" :> "z")

lower_char(c) == IF c \in DOMAIN LowerOf THEN LowerOf[c] ELSE c

\* str.lower(): every character lower-cased (computed by halves)
RECURSIVE lower(_)
lower(s) ==
    IF Len(s) = 0 THEN ""
    ELSE IF Len(s) = 1 THEN lower_char(s)
    ELSE lower(SubSeq(s, 1, Len(s) \div 2)) \o lower(SubSeq(s, Len(s) \div 2 + 1, Len(s)))

\* Python `k in s` on strings: k occurs in s as a substring
contains(s, k) ==
    \E i \in 1..(Len(s) - Len(k) + 1) : SubSeq(s, i, i + Len(k) - 1) = k

\* any(keyword in s for keyword in keywords)
any_keyword_in(keywords, s) ==
    \E j \in 1..Len(keywords) : contains(s, keywords[j])

RECURSIVE join(_)
join(words) ==
    IF Len(words) = 0 THEN ""
    ELSE IF Len(words) = 1 THEN words[1]
    ELSE words[1] \o " " \o join(Tail(words))

min(a, b) == IF a <= b THEN a ELSE b

Return(v) == [raised |-> "", value |-> v, log |-> <<>>, posted |-> <<>>]
Raise(e, text) == [raised |-> e, value |-> text, log |-> <<>>, posted |-> <<>>]

\* statements in sequence: F runs on what r returned unless r raised
Try(r, F(_)) ==
    IF r.raised # "" THEN r
    ELSE [F(r.value) EXCEPT !.log = r.log \o @, !.posted = r.posted \o @]

\* try: r  except Exception as ex: H(str(ex))
Except(r, H(_)) ==
    IF r.raised = "" THEN r
    ELSE [H(r.value) EXCEPT !.log = r.log \o @, !.posted = r.posted \o @]

---------------------------------------------------------------------------
(* models.py *)

AgentRoutingPreference ==
    {"AUTO", "PREFER_COPILOT_STUDIO", "PREFER_AZURE_AI",
     "COPILOT_STUDIO_ONLY", "AZURE_AI_ONLY"}

AgentType == {"COPILOT_STUDIO", "AZURE_AI", "POWER_AUTOMATE", "HYBRID"}

TopicAction == {"START", "CONTINUE", "RESET", "COMPLETE", "ESCALATE"}

\* Enum member -> its value (the string that crosses a JSON boundary)
value_of ==
    [AUTO |-> "auto",
     PREFER_COPILOT_STUDIO |-> "prefer_copilot_studio",
     PREFER_AZURE_AI |-> "prefer_azure_ai",
     COPILOT_STUDIO_ONLY |-> "copilot_studio_only",
     AZURE_AI_ONLY |-> "azure_ai_only",
     COPILOT_STUDIO |-> "copilot_studio",
     AZURE_AI |-> "azure_ai",
     POWER_AUTOMATE |-> "power_automate",
     HYBRID |-> "hybrid",
     START |-> "start",
     CONTINUE |-> "continue",
     RESET |-> "reset",
     COMPLETE |-> "complete",
     ESCALATE |-> "escalate"]

ConversationRequest(user_id, message, conversation_id, context, routing_preference) ==
    [user_id |-> user_id, message |-> message, conversation_id |-> conversation_id,
     context |-> context, routing_preference |-> routing_preference]

AgentRoutingDecision(selected_agent, reason, confidence, routing_context) ==
    [selected_agent |-> selected_agent, reason |-> reason,
     confidence |-> confidence, routing_context |-> routing_context]

\* supported_by is a list: a sequence of AgentType members
AgentCapability(name, description, supported_by, is_required) ==
    [name |-> name, description |-> description,
     supported_by |-> supported_by, is_required |-> is_required]

MultiAgentRequest(task_description, required_capabilities, user_id, context) ==
    [task_description |-> task_description, required_capabilities |-> required_capabilities,
     user_id |-> user_id, context |-> context]

AgentCollaborationStep(agent_type, description, prompt, input_context) ==
    [agent_type |-> agent_type, description |-> description,
     prompt |-> prompt, input_context |-> input_context]

AgentResponse(message, agent_type, agent_id, conversation_id, context, requires_follow_up, next_action) ==
    [message |-> message, agent_type |-> agent_type, agent_id |-> agent_id,
     conversation_id |-> conversation_id, context |-> context,
     requires_follow_up |-> requires_follow_up, next_action |-> next_action]

CopilotStudioRequest(bot_id, user_id, message, conversation_id, topic, variables) ==
    [bot_id |-> bot_id, user_id |-> user_id, message |-> message,
     conversation_id |-> conversation_id, topic |-> topic, variables |-> variables]

CopilotStudioResponse(message, conversation_id, topic, variables, topic_completed, next_topic) ==
    [message |-> message, conversation_id |-> conversation_id, topic |-> topic,
     variables |-> variables, topic_completed |-> topic_completed,
     next_topic |-> next_topic]

TopicManagementRequest(bot_id, topic_id, action, parameters) ==
    [bot_id |-> bot_id, topic_id |-> topic_id, action |-> action,
     parameters |-> parameters]

---------------------------------------------------------------------------
(* services.py: PowerPlatformGraphService *)

\* send_message_to_copilot_studio: the endpoint answers with an HTTP status
\* and, for 200, a JSON object; any other status is raised as an exception
\* after two logger.error lines (a failure to get a token ends the same way)
\* what is posted to the bot's conversations endpoint
copilot_studio_payload(request) ==
    [bot_id |-> request.bot_id,
     message |-> request.message,
     userId |-> request.user_id,
     conversationId |-> request.conversation_id,
     topic |-> request.topic,
     variables |-> or_empty(request.variables)]

\* session.post(...) answered with status 200: the value built from the answer
posting(payload, v) == [raised |-> "", value |-> v, log |-> <<>>, posted |-> <<payload>>]

send_message_to_copilot_studio(self, request) ==
    IF copilot_studio.status # 200
    THEN [raised |-> "Exception",
          value |-> "Copilot Studio API error: " \o ToString(copilot_studio.status),
          log |-> <<"Failed to send message to Copilot Studio: "
                        \o ToString(copilot_studio.status),
                    "Error sending message to Copilot Studio bot " \o request.bot_id>>,
          posted |-> <<copilot_studio_payload(request)>>]
    ELSE posting(copilot_studio_payload(request), CopilotStudioResponse(
            get(copilot_studio.data, "message", ""),
            get(copilot_studio.data, "conversationId",
                IF request.conversation_id = None THEN "" ELSE request.conversation_id),
            get(copilot_studio.data, "topic", None),
            get(copilot_studio.data, "variables", NoneDict),
            get(copilot_studio.data, "topicCompleted", FALSE),
            get(copilot_studio.data, "nextTopic", None)))

---------------------------------------------------------------------------
(* services.py: AgentRoutingService *)

\* __init__: the fields are read from the process environment
AgentRoutingService(azure_ai_endpoint, azure_ai_agent_id) ==
    [azure_ai_endpoint |-> azure_ai_endpoint, azure_ai_agent_id |-> azure_ai_agent_id]

copilot_studio_keywords ==
    <<"workflow", "process", "step", "form", "approval", "business", "policy", "procedure">>

azure_ai_keywords ==
    <<"explain", "analyze", "creative", "generate", "complex", "reasoning", "technical", "code">>

\* sum(1 for keyword in keywords if keyword in message)
RECURSIVE keyword_score(_, _)
keyword_score(keywords, message) ==
    IF Len(keywords) = 0 THEN 0
    ELSE (IF contains(message, Head(keywords)) THEN 1 ELSE 0)
         + keyword_score(Tail(keywords), message)

\* mutant: the confidence starts from 0.5, so that two keywords give 0.7
rules_decision_from_half(copilot_studio_score, azure_ai_score) ==
    IF copilot_studio_score > azure_ai_score
    THEN AgentRoutingDecision(
            "COPILOT_STUDIO",
            "Message contains " \o ToString(copilot_studio_score)
                \o " Copilot Studio keywords indicating structured process",
            min(5 + (copilot_studio_score * 1), 10),
            EmptyDict)
    ELSE IF azure_ai_score > copilot_studio_score
    THEN AgentRoutingDecision(
            "AZURE_AI",
            "Message contains " \o ToString(azure_ai_score)
                \o " Azure AI keywords indicating complex reasoning needed",
            min(5 + (azure_ai_score * 1), 10),
            EmptyDict)
    ELSE AgentRoutingDecision(
            "COPILOT_STUDIO",
            "No clear indicators, defaulting to Copilot Studio for structured handling",
            5,
            EmptyDict)

\* mutant: the confidence is not capped at 1.0
rules_decision_uncapped(copilot_studio_score, azure_ai_score) ==
    IF copilot_studio_score > azure_ai_score
    THEN AgentRoutingDecision(
            "COPILOT_STUDIO",
            "Message contains " \o ToString(copilot_studio_score)
                \o " Copilot Studio keywords indicating structured process",
            6 + (copilot_studio_score * 1),
            EmptyDict)
    ELSE IF azure_ai_score > copilot_studio_score
    THEN AgentRoutingDecision(
            "AZURE_AI",
            "Message contains " \o ToString(azure_ai_score)
                \o " Azure AI keywords indicating complex reasoning needed",
            6 + (azure_ai_score * 1),
            EmptyDict)
    ELSE AgentRoutingDecision(
            "COPILOT_STUDIO",
            "No clear indicators, defaulting to Copilot Studio for structured handling",
            5,
            EmptyDict)

\* mutant: the second comparison is >=, so a tie goes to Azure AI
rules_decision_tie_to_azure(copilot_studio_score, azure_ai_score) ==
    IF copilot_studio_score > azure_ai_score
    THEN AgentRoutingDecision(
            "COPILOT_STUDIO",
            "Message contains " \o ToString(copilot_studio_score)
                \o " Copilot Studio keywords indicating structured process",
            min(6 + (copilot_studio_score * 1), 10),
            EmptyDict)
    ELSE AgentRoutingDecision(
            "AZURE_AI",
            "Message contains " \o ToString(azure_ai_score)
                \o " Azure AI keywords indicating complex reasoning needed",
            min(6 + (azure_ai_score * 1), 10),
            EmptyDict)

\* variant: a message with as many keywords of the one list as of the
\* other, and at least one of each, goes to the hybrid agent
rules_decision_tie_to_hybrid(copilot_studio_score, azure_ai_score) ==
    IF copilot_studio_score = azure_ai_score /\ copilot_studio_score > 0
    THEN AgentRoutingDecision(
            "HYBRID",
            "Message contains indicators of both agents",
            min(6 + (copilot_studio_score * 1), 10),
            EmptyDict)
    ELSE IF copilot_studio_score > azure_ai_score
    THEN AgentRoutingDecision(
            "COPILOT_STUDIO",
            "Message contains " \o ToString(copilot_studio_score)
                \o " Copilot Studio keywords indicating structured process",
            min(6 + (copilot_studio_score * 1), 10),
            EmptyDict)
    ELSE IF azure_ai_score > copilot_studio_score
    THEN AgentRoutingDecision(
            "AZURE_AI",
            "Message contains " \o ToString(azure_ai_score)
                \o " Azure AI keywords indicating complex reasoning needed",
            min(6 + (azure_ai_score * 1), 10),
            EmptyDict)
    ELSE AgentRoutingDecision(
            "COPILOT_STUDIO",
            "No clear indicators, defaulting to Copilot Studio for structured handling",
            5,
            EmptyDict)

rules_decision(copilot_studio_score, azure_ai_score) ==
    IF copilot_studio_score > azure_ai_score
    THEN AgentRoutingDecision(
            "COPILOT_STUDIO",
            "Message contains " \o ToString(copilot_studio_score)
                \o " Copilot Studio keywords indicating structured process",
            min(6 + (copilot_studio_score * 1), 10),
            EmptyDict)
    ELSE IF azure_ai_score > copilot_studio_score
    THEN AgentRoutingDecision(
            "AZURE_AI",
            "Message contains " \o ToString(azure_ai_score)
                \o " Azure AI keywords indicating complex reasoning needed",
            min(6 + (azure_ai_score * 1), 10),
            EmptyDict)
    ELSE AgentRoutingDecision(
            "COPILOT_STUDIO",
            "No clear indicators, defaulting to Copilot Studio for structured handling",
            5,
            EmptyDict)

_determine_routing_with_rules(request) ==
    IF request.message = None
    THEN Raise("AttributeError", "'NoneType' object has no attribute 'lower'")
    ELSE LET message == lower(request.message)
         IN Return(rules_decision(keyword_score(copilot_studio_keywords, message),
                                  keyword_score(azure_ai_keywords, message)))

\* mutant: PREFER_* is taken as a hint and the rules still decide
_handle_explicit_routing_soft_preference(request) ==
    IF request.routing_preference = "COPILOT_STUDIO_ONLY"
    THEN Return(AgentRoutingDecision(
            "COPILOT_STUDIO", "User explicitly requested Copilot Studio only", 10, EmptyDict))
    ELSE IF request.routing_preference = "AZURE_AI_ONLY"
    THEN Return(AgentRoutingDecision(
            "AZURE_AI", "User explicitly requested Azure AI only", 10, EmptyDict))
    ELSE _determine_routing_with_rules(request)

_handle_explicit_routing(request) ==
    IF request.routing_preference = "PREFER_COPILOT_STUDIO"
    THEN Return(AgentRoutingDecision(
            "COPILOT_STUDIO", "User preference for Copilot Studio", 10, EmptyDict))
    ELSE IF request.routing_preference = "PREFER_AZURE_AI"
    THEN Return(AgentRoutingDecision(
            "AZURE_AI", "User preference for Azure AI", 10, EmptyDict))
    ELSE IF request.routing_preference = "COPILOT_STUDIO_ONLY"
    THEN Return(AgentRoutingDecision(
            "COPILOT_STUDIO", "User explicitly requested Copilot Studio only", 10, EmptyDict))
    ELSE IF request.routing_preference = "AZURE_AI_ONLY"
    THEN Return(AgentRoutingDecision(
            "AZURE_AI", "User explicitly requested Azure AI only", 10, EmptyDict))
    ELSE _determine_routing_with_rules(request)

\* the except block of determine_routing
determine_routing_except(ex) ==
    [raised |-> "",
     value |-> AgentRoutingDecision(
                  "COPILOT_STUDIO",
                  "Error in routing logic, defaulting to Copilot Studio",
                  5,
                  [error |-> ex]),
     log |-> <<"Error determining routing for request: " \o ex>>,
     posted |-> <<>>]

\* mutant: a configured Azure AI endpoint takes every AUTO request
determine_routing_by_endpoint(self, request) ==
    IF ~({"user_id", "message"} \subseteq DOMAIN request)
    THEN Raise("AttributeError", "object has no attribute 'user_id'")
    ELSE Except(IF request.routing_preference # "AUTO"
                THEN _handle_explicit_routing(request)
                ELSE IF self.azure_ai_endpoint # None
                THEN Return(AgentRoutingDecision(
                        "AZURE_AI", "Azure AI endpoint configured for routing decisions",
                        10, EmptyDict))
                ELSE _determine_routing_with_rules(request),
                determine_routing_except)

\* the logger.info line before `try` reads request.user_id and request.message
determine_routing(self, request) ==
    IF ~({"user_id", "message"} \subseteq DOMAIN request)
    THEN Raise("AttributeError", "object has no attribute 'user_id'")
    ELSE Except(IF request.routing_preference # "AUTO"
                THEN _handle_explicit_routing(request)
                ELSE _determine_routing_with_rules(request),
                determine_routing_except)

\* os.getenv("COPILOT_STUDIO_BOT_ID", "") in the worker's environment
COPILOT_STUDIO_BOT_ID == "bot-1"

\* the AgentResponse _execute_copilot_studio_request builds from the bot's answer
copilot_studio_agent_response(bot_id, response) ==
    Return(AgentResponse(response.message, "CopilotStudio", bot_id,
                         response.conversation_id, response.variables,
                         ~response.topic_completed, response.next_topic))

_execute_copilot_studio_request(self, request, decision) ==
    Try(send_message_to_copilot_studio(
            self,
            CopilotStudioRequest(COPILOT_STUDIO_BOT_ID, request.user_id, request.message,
                                 request.conversation_id, None, request.context)),
        LAMBDA response : copilot_studio_agent_response(COPILOT_STUDIO_BOT_ID, response))

\* placeholder implementation: no call leaves the process
_execute_azure_ai_request(self, request, decision) ==
    Return(AgentResponse("Azure AI response to: " \o str(request.message), "AzureAI",
                         self.azure_ai_agent_id, request.conversation_id,
                         request.context, FALSE, None))

\* the escalation branch of _execute_hybrid_request
hybrid_combined(copilot_response, azure_ai_response) ==
    AgentResponse(
        str(copilot_response.message) \o "\n\n[Escalated to Azure AI]\n"
            \o str(azure_ai_response.message),
        "Hybrid", "hybrid-routing", copilot_response.conversation_id,
        merged(or_empty(copilot_response.context), or_empty(azure_ai_response.context)),
        azure_ai_response.requires_follow_up, None)

_execute_hybrid_request(self, request, decision) ==
    Try(_execute_copilot_studio_request(self, request, decision),
        LAMBDA copilot_response :
            IF copilot_response.requires_follow_up
               /\ copilot_response.next_action = "escalate"
            THEN Try(_execute_azure_ai_request(self, request, decision),
                     LAMBDA azure_ai_response :
                         Return(hybrid_combined(copilot_response, azure_ai_response)))
            ELSE Return(copilot_response))

\* the dispatch of route_and_execute on the routing decision
execute_decision(self, request, routing_decision) ==
    IF routing_decision.selected_agent = "COPILOT_STUDIO"
    THEN _execute_copilot_studio_request(self, request, routing_decision)
    ELSE IF routing_decision.selected_agent = "AZURE_AI"
    THEN _execute_azure_ai_request(self, request, routing_decision)
    ELSE IF routing_decision.selected_agent = "HYBRID"
    THEN _execute_hybrid_request(self, request, routing_decision)
    ELSE Raise("ValueError",
               "Agent type AgentType." \o routing_decision.selected_agent
                   \o " not supported")

route_and_execute(self, request) ==
    Try(determine_routing(self, request),
        LAMBDA routing_decision : execute_decision(self, request, routing_decision))

---------------------------------------------------------------------------
(* JSON texts.  A text is the JSON value it denotes, or NotJson when it    *)
(* denotes none; json.dumps of a JSON-compatible value is that value.      *)

NotJson == [json |-> "malformed"]
JsonObject(members) == [json |-> "object", members |-> members]
JsonArray(items) == [json |-> "array", items |-> items]

json_loads(text) ==
    IF text.json = "malformed"
    THEN Raise("JSONDecodeError", "Expecting value: line 1 column 1 (char 0)")
    ELSE Return(text)

json_dumps(v) == v

---------------------------------------------------------------------------
(* models.py: to_dict, from_dict *)

EnumMembers ==
    [AgentRoutingPreference |-> AgentRoutingPreference,
     AgentType |-> AgentType,
     TopicAction |-> TopicAction]

\* What from_dict asks of an annotation t:
\*   origin        hasattr(t, '__origin__')
\*   none_in_args  type(None) in t.__args__
\*   first_arg     t.__args__[0]
\*   is_class      t is a class (issubclass(t, Enum) raises TypeError otherwise:
\*                 a typing generic alias such as Dict[str, Any] is no class)
TypeInfo ==
    ("str" :> [origin |-> FALSE, none_in_args |-> FALSE, first_arg |-> "", is_class |-> TRUE]) @@
    ("float" :> [origin |-> FALSE, none_in_args |-> FALSE, first_arg |-> "", is_class |-> TRUE]) @@
    ("bool" :> [origin |-> FALSE, none_in_args |-> FALSE, first_arg |-> "", is_class |-> TRUE]) @@
    ("AgentRoutingPreference" :>
        [origin |-> FALSE, none_in_args |-> FALSE, first_arg |-> "", is_class |-> TRUE]) @@
    ("AgentType" :>
        [origin |-> FALSE, none_in_args |-> FALSE, first_arg |-> "", is_class |-> TRUE]) @@
    ("TopicAction" :>
        [origin |-> FALSE, none_in_args |-> FALSE, first_arg |-> "", is_class |-> TRUE]) @@
    ("Optional[str]" :>
        [origin |-> TRUE, none_in_args |-> TRUE, first_arg |-> "str", is_class |-> FALSE]) @@
    ("Optional[Dict[str, Any]]" :>
        [origin |-> TRUE, none_in_args |-> TRUE, first_arg |-> "Dict[str, Any]",
         is_class |-> FALSE]) @@
    ("Dict[str, Any]" :>
        [origin |-> TRUE, none_in_args |-> FALSE, first_arg |-> "str", is_class |-> FALSE]) @@
    ("List[AgentCapability]" :>
        [origin |-> TRUE, none_in_args |-> FALSE, first_arg |-> "AgentCapability",
         is_class |-> FALSE]) @@
    ("List[AgentType]" :>
        [origin |-> TRUE, none_in_args |-> FALSE, first_arg |-> "AgentType",
         is_class |-> FALSE])

Field(name, type) == [name |-> name, type |-> type, required |-> TRUE, default |-> None]
FieldWithDefault(name, type, default) ==
    [name |-> name, type |-> type, required |-> FALSE, default |-> default]

\* __annotations__ of the dataclasses, in declaration order, with the defaults
Annotations ==
    [ConversationRequest |->
        <<Field("user_id", "str"),
          Field("message", "str"),
          FieldWithDefault("conversation_id", "Optional[str]", None),
          FieldWithDefault("context", "Optional[Dict[str, Any]]", EmptyDict),
          FieldWithDefault("routing_preference", "AgentRoutingPreference", "AUTO")>>,
     AgentResponse |->
        <<Field("message", "str"),
          Field("agent_type", "str"),
          Field("agent_id", "str"),
          FieldWithDefault("conversation_id", "Optional[str]", None),
          FieldWithDefault("context", "Optional[Dict[str, Any]]", EmptyDict),
          FieldWithDefault("requires_follow_up", "bool", FALSE),
          FieldWithDefault("next_action", "Optional[str]", None)>>,
     AgentRoutingDecision |->
        <<Field("selected_agent", "AgentType"),
          Field("reason", "str"),
          Field("confidence", "float"),
          FieldWithDefault("routing_context", "Optional[Dict[str, Any]]", EmptyDict)>>,
     AgentCapability |->
        <<Field("name", "str"),
          Field("description", "str"),
          Field("supported_by", "List[AgentType]"),
          FieldWithDefault("is_required", "bool", TRUE)>>,
     MultiAgentRequest |->
        <<Field("task_description", "str"),
          Field("required_capabilities", "List[AgentCapability]"),
          Field("user_id", "str"),
          FieldWithDefault("context", "Optional[Dict[str, Any]]", EmptyDict)>>,
     TopicManagementRequest |->
        <<Field("bot_id", "str"),
          Field("topic_id", "str"),
          Field("action", "TopicAction"),
          FieldWithDefault("parameters", "Optional[Dict[str, Any]]", EmptyDict)>>,
     AgentCollaborationStep |->
        <<Field("agent_type", "AgentType"),
          Field("description", "str"),
          Field("prompt", "str"),
          FieldWithDefault("input_context", "Optional[Dict[str, Any]]", EmptyDict)>>]

FieldNames(fields) == {fields[i].name : i \in 1..Len(fields)}

FieldNamed(fields, name) ==
    fields[CHOOSE i \in 1..Len(fields) : fields[i].name = name]

\* to_dict(obj) for an instance whose fields hold scalars, dicts and Enum
\* members: every field becomes a key, an Enum member its value
to_dict_fields(fields, obj) ==
    JsonObject([f \in FieldNames(fields) |->
                   IF FieldNamed(fields, f).type \in DOMAIN EnumMembers
                   THEN value_of[obj[f]]
                   ELSE obj[f]])

to_dict(data_class, obj) == to_dict_fields(Annotations[data_class], obj)

\* the type from_dict hands to issubclass(field_type, Enum) for a present key
unwrapped(info, t) ==
    IF info.origin /\ info.none_in_args THEN info.first_arg ELSE t

asked_type(t) == unwrapped(TypeInfo[t], t)

\* issubclass() arg 1 must be a class
type_error(field, members) ==
    /\ field.name \in DOMAIN members
    /\ ~TypeInfo[asked_type(field.type)].is_class

\* field_type(data[field_name]): value is no value of the Enum
enum_error(type, value) ==
    /\ type \in DOMAIN EnumMembers
    /\ \A e \in EnumMembers[type] : value_of[e] # value

value_error(field, members) ==
    /\ field.name \in DOMAIN members
    /\ enum_error(asked_type(field.type), members[field.name])

\* the exception the loop of from_dict raises at a field
raise_at(field, members) ==
    IF type_error(field, members)
    THEN Raise("TypeError", "issubclass() arg 1 must be a class")
    ELSE Raise("ValueError",
               (IF members[field.name] = None THEN "None"
                ELSE "'" \o members[field.name] \o "'")
                   \o " is not a valid " \o asked_type(field.type))

\* what the loop leaves in data[field.name], or the default of the field
field_value(field, members) ==
    IF field.name \notin DOMAIN members THEN field.default
    ELSE IF asked_type(field.type) \in DOMAIN EnumMembers
    THEN CHOOSE e \in EnumMembers[asked_type(field.type)] : value_of[e] = members[field.name]
    ELSE members[field.name]

\* data_class(**data)
construct(fields, members) ==
    IF ~(DOMAIN members \subseteq FieldNames(fields))
    THEN Raise("TypeError", "__init__() got an unexpected keyword argument")
    ELSE IF \E i \in 1..Len(fields) :
                fields[i].required /\ fields[i].name \notin DOMAIN members
    THEN Raise("TypeError", "__init__() missing required positional argument")
    ELSE Return([f \in FieldNames(fields) |-> field_value(FieldNamed(fields, f), members)])

\* the loop over the annotations, failing being the fields it raises at
from_dict_loop(fields, members, failing) ==
    IF failing # {}
    THEN raise_at(fields[CHOOSE i \in failing : \A j \in failing : i <= j], members)
    ELSE construct(fields, members)

from_dict_object(fields, members) ==
    from_dict_loop(fields, members,
                   {i \in 1..Len(fields) :
                       type_error(fields[i], members) \/ value_error(fields[i], members)})

from_dict(data_class, data) ==
    IF data.json # "object" THEN Return(data)
    ELSE from_dict_object(Annotations[data_class], data.members)

---------------------------------------------------------------------------
(* worker.py: activities *)

\* variant: the except block marks the decision with the agent type "Error"
\* that the error responses carry
determine_agent_routing_except_error_agent(ex) ==
    [raised |-> "",
     value |-> json_dumps(JsonObject(
                   [selected_agent |-> "Error",
                    reason |-> "Error in routing, defaulting to Copilot Studio",
                    confidence |-> 5,
                    routing_context |-> EmptyDict])),
     log |-> <<"Error determining agent routing: " \o ex>>,
     posted |-> <<>>]

\* the except block of determine_agent_routing
determine_agent_routing_except(ex) ==
    [raised |-> "",
     value |-> json_dumps(to_dict("AgentRoutingDecision",
                   AgentRoutingDecision(
                       "COPILOT_STUDIO",
                       "Error in routing, defaulting to Copilot Studio",
                       5,
                       EmptyDict))),
     log |-> <<"Error determining agent routing: " \o ex>>,
     posted |-> <<>>]

determine_agent_routing(ctx, request_json) ==
    Except(Try(Try(Try(json_loads(request_json),
                       LAMBDA data : from_dict("ConversationRequest", data)),
                   LAMBDA request : determine_routing(routing_service, request)),
               LAMBDA decision : Return(json_dumps(to_dict("AgentRoutingDecision", decision)))),
           determine_agent_routing_except)

\* Python `x in list`
in_list(x, list) == \E i \in 1..Len(list) : list[i] = x

_select_best_agent_for_capability(capability) ==
    IF /\ in_list("COPILOT_STUDIO", capability.supported_by)
       /\ (contains(capability.name, "workflow") \/ contains(capability.name, "process"))
    THEN "COPILOT_STUDIO"
    ELSE IF /\ in_list("AZURE_AI", capability.supported_by)
            /\ (contains(capability.name, "analysis") \/ contains(capability.name, "creative"))
    THEN "AZURE_AI"
    ELSE IF Len(capability.supported_by) > 0
    THEN capability.supported_by[1]
    ELSE "COPILOT_STUDIO"

_create_prompt_for_capability(capability, task_description) ==
    "Task: " \o task_description \o "\n\n"
    \o "Your specific role: " \o capability.description \o "\n\n"
    \o "Focus on the " \o capability.name \o " aspect of this task. "
    \o "Provide a clear, actionable response that can be used by other agents in this collaboration."

_create_general_collaboration_plan(request) ==
    LET task == lower(request.task_description)
    IN  <<AgentCollaborationStep(
            "COPILOT_STUDIO",
            "Initial analysis and structure",
            "Analyze this request and provide a structured breakdown: "
                \o request.task_description,
            EmptyDict)>>
        \o (IF any_keyword_in(<<"complex", "analyze", "creative">>, task)
            THEN <<AgentCollaborationStep(
                     "AZURE_AI",
                     "Advanced analysis and recommendations",
                     "Provide detailed analysis and recommendations for: "
                         \o request.task_description,
                     EmptyDict)>>
            ELSE <<>>)
        \o (IF any_keyword_in(<<"automate", "flow", "trigger">>, task)
            THEN <<AgentCollaborationStep(
                     "POWER_AUTOMATE",
                     "Automation workflow",
                     "Design automation workflow for: " \o request.task_description,
                     EmptyDict)>>
            ELSE <<>>)

\* a dataclass instance, as opposed to a value json.loads built
is_instance(v) == "json" \notin DOMAIN v

\* the step the loop of plan_agent_collaboration appends for a capability
capability_step(request, capability) ==
    AgentCollaborationStep(
        _select_best_agent_for_capability(capability),
        "Handle " \o capability.name \o ": " \o capability.description,
        _create_prompt_for_capability(capability, request.task_description),
        request.context)

\* the steps the try block of plan_agent_collaboration builds for a request
plan_steps(request) ==
    \* from_dict returned the list or scalar it was given
    IF ~is_instance(request)
    THEN Raise("AttributeError", "object has no attribute 'required_capabilities'")
    \* from_dict leaves the elements of a list as json.loads built them
    ELSE IF \E i \in 1..Len(request.required_capabilities) :
                ~is_instance(request.required_capabilities[i])
    THEN Raise("AttributeError", "'dict' object has no attribute 'supported_by'")
    ELSE IF Len(request.required_capabilities) > 0
    THEN Return([i \in 1..Len(request.required_capabilities) |->
                    capability_step(request, request.required_capabilities[i])])
    ELSE Return(_create_general_collaboration_plan(request))

\* json.dumps([to_dict(step) for step in steps])
dump_steps(steps) ==
    Return(json_dumps(JsonArray(
        [i \in 1..Len(steps) |-> to_dict("AgentCollaborationStep", steps[i])])))

\* the default plan of the except block, data being request_json parsed again
default_plan(data) ==
    IF data.json # "object"
    THEN Raise("AttributeError", "object has no attribute 'get'")
    ELSE dump_steps(
            <<AgentCollaborationStep(
                "COPILOT_STUDIO",
                "Handle request with error recovery",
                "Process this request with error handling: "
                    \o (IF "task_description" \in DOMAIN data.members
                        THEN data.members.task_description
                        ELSE "Unknown task"),
                EmptyDict)>>)

\* variant: the except block returns an empty plan
plan_agent_collaboration_except_empty(request_json, ex) ==
    [Try(json_loads(request_json),
         LAMBDA data : IF data.json # "object"
                       THEN Raise("AttributeError", "object has no attribute 'get'")
                       ELSE dump_steps(<<>>))
     EXCEPT !.log = <<"Error planning agent collaboration: " \o ex>>]

\* the except block of plan_agent_collaboration: the error is logged, then
\* request_json is parsed again, outside any try
plan_agent_collaboration_except(request_json, ex) ==
    [Try(json_loads(request_json), default_plan)
     EXCEPT !.log = <<"Error planning agent collaboration: " \o ex>>]

plan_agent_collaboration(ctx, request_json) ==
    Except(Try(Try(Try(json_loads(request_json),
                       LAMBDA data : from_dict("MultiAgentRequest", data)),
                   plan_steps),
               dump_steps),
           LAMBDA ex : plan_agent_collaboration_except(request_json, ex))

\* input_data["request"] for input_data = json.loads(input_json)
request_of(input_data) ==
    IF input_data.json = "array"
    THEN Raise("TypeError", "list indices must be integers or slices, not str")
    ELSE IF "request" \notin DOMAIN input_data.members
    THEN Raise("KeyError", "'request'")
    ELSE Return(input_data.members.request)

\* the except block of execute_agent_request
execute_agent_request_except(ex) ==
    [raised |-> "",
     value |-> json_dumps(to_dict("AgentResponse",
                   AgentResponse(
                       "I apologize, but I encountered an error processing your request. Please try again.",
                       "Error", "system", None, [error |-> ex], FALSE, None))),
     log |-> <<"Error executing agent request: " \o ex>>,
     posted |-> <<>>]

\* the "routing" entry of the input is never read
execute_agent_request(ctx, input_json) ==
    Except(Try(Try(Try(Try(json_loads(input_json), request_of),
                       LAMBDA data : from_dict("ConversationRequest", data)),
                   LAMBDA request : route_and_execute(routing_service, request)),
               LAMBDA response : Return(json_dumps(to_dict("AgentResponse", response)))),
           execute_agent_request_except)

\* _start_topic and _continue_topic: they differ in the message sent
topic_message(request, message) ==
    Try(send_message_to_copilot_studio(
            "power_platform_service",
            CopilotStudioRequest(request.bot_id, "system", message, None,
                                 request.topic_id, request.parameters)),
        LAMBDA response : copilot_studio_agent_response(request.bot_id, response))

_start_topic(request) == topic_message(request, "Start topic: " \o request.topic_id)

_continue_topic(request) == topic_message(request, "Continue with current topic")

\* variant: an action that is none of the five starts the topic
_manage_topic_async_unknown_starts(request) ==
    IF request.action = "CONTINUE" THEN _continue_topic(request)
    ELSE IF request.action = "COMPLETE"
    THEN Return(AgentResponse(
            "Topic " \o request.topic_id \o " has been completed successfully.",
            "CopilotStudio", request.bot_id, None, request.parameters, FALSE, None))
    ELSE IF request.action = "ESCALATE"
    THEN Return(AgentResponse(
            "Topic " \o request.topic_id
                \o " requires escalation to Azure AI for advanced assistance.",
            "CopilotStudio", request.bot_id, None, request.parameters, TRUE, "escalate"))
    ELSE _start_topic(request)

\* variant: COMPLETE is passed on to the endpoint as the other actions are
_manage_topic_async_complete_posted(request) ==
    IF request.action \in {"START", "RESET"} THEN _start_topic(request)
    ELSE IF request.action \in {"CONTINUE", "COMPLETE"} THEN _continue_topic(request)
    ELSE IF request.action = "ESCALATE"
    THEN Return(AgentResponse(
            "Topic " \o request.topic_id
                \o " requires escalation to Azure AI for advanced assistance.",
            "CopilotStudio", request.bot_id, None, request.parameters, TRUE, "escalate"))
    ELSE Raise("ValueError", "Unknown topic action: " \o request.action)

\* variant: RESET goes on with the current topic
_manage_topic_async_reset_continues(request) ==
    IF request.action \in {"START"} THEN _start_topic(request)
    ELSE IF request.action \in {"CONTINUE", "RESET"} THEN _continue_topic(request)
    ELSE IF request.action = "COMPLETE"
    THEN Return(AgentResponse(
            "Topic " \o request.topic_id \o " has been completed successfully.",
            "CopilotStudio", request.bot_id, None, request.parameters, FALSE, None))
    ELSE IF request.action = "ESCALATE"
    THEN Return(AgentResponse(
            "Topic " \o request.topic_id
                \o " requires escalation to Azure AI for advanced assistance.",
            "CopilotStudio", request.bot_id, None, request.parameters, TRUE, "escalate"))
    ELSE Raise("ValueError", "Unknown topic action: " \o request.action)

_manage_topic_async(request) ==
    IF request.action = "START" THEN _start_topic(request)
    ELSE IF request.action = "CONTINUE" THEN _continue_topic(request)
    ELSE IF request.action = "RESET" THEN _start_topic(request)
    ELSE IF request.action = "COMPLETE"
    THEN Return(AgentResponse(
            "Topic " \o request.topic_id \o " has been completed successfully.",
            "CopilotStudio", request.bot_id, None, request.parameters, FALSE, None))
    ELSE IF request.action = "ESCALATE"
    THEN Return(AgentResponse(
            "Topic " \o request.topic_id
                \o " requires escalation to Azure AI for advanced assistance.",
            "CopilotStudio", request.bot_id, None, request.parameters, TRUE, "escalate"))
    ELSE Raise("ValueError", "Unknown topic action: " \o request.action)

\* the except block of manage_topic
manage_topic_except(ex) ==
    [raised |-> "",
     value |-> json_dumps(to_dict("AgentResponse",
                   AgentResponse("Error managing topic: " \o ex, "Error", "topic-manager",
                                 None, [error |-> ex], FALSE, None))),
     log |-> <<"Error managing topic: " \o ex>>,
     posted |-> <<>>]

manage_topic(ctx, request_json) ==
    Except(Try(Try(Try(json_loads(request_json),
                       LAMBDA data : from_dict("TopicManagementRequest", data)),
                   LAMBDA request :
                       IF is_instance(request) THEN _manage_topic_async(request)
                       ELSE Raise("AttributeError", "object has no attribute 'action'")),
               LAMBDA response : Return(json_dumps(to_dict("AgentResponse", response)))),
           manage_topic_except)

---------------------------------------------------------------------------
(* worker.py: orchestrators.  An instance is a record: status ("scheduled",  *)
(* "awaiting" an activity, "completed" with an output, "failed" with the     *)
(* exception that left the generator), the local variables assigned so far   *)
(* (<<>> while unassigned), the activity call it is suspended on and the     *)
(* calls it has issued.                                                      *)

Scheduled(request_json) ==
    [status |-> "scheduled", input |-> request_json, request |-> <<>>,
     routing_decision |-> <<>>, response |-> <<>>,
     collaboration_plan |-> <<>>, i |-> 0, responses |-> <<>>,
     call |-> <<>>, calls |-> <<>>, output |-> <<>>, failure |-> "",
     recorded_in |-> <<>>]

\* yield ctx.call_activity(activity, input=input)
Call(activity, input) == [activity |-> activity, input |-> input, result |-> <<>>]

\* the statements of an orchestrator before its try block: r is the request
\* they built; an exception there leaves the generator
\* variant: the first two activities are scheduled together, before the
\* result of the first is there
Started_two_at_once(o, r, activity, data_class) ==
    IF r.raised # ""
    THEN [o EXCEPT !.status = "failed", !.failure = r.raised]
    ELSE [o EXCEPT !.status = "awaiting",
                   !.request = <<r.value>>,
                   !.call = <<Call(activity, json_dumps(to_dict(data_class, r.value)))>>,
                   !.calls = <<Call("execute_agent_request",
                                    json_dumps(to_dict(data_class, r.value))),
                               Call(activity, json_dumps(to_dict(data_class, r.value)))>>]

Started(o, r, activity, data_class) ==
    IF r.raised # ""
    THEN [o EXCEPT !.status = "failed", !.failure = r.raised]
    ELSE [o EXCEPT !.status = "awaiting",
                   !.request = <<r.value>>,
                   !.call = <<Call(activity, json_dumps(to_dict(data_class, r.value)))>>,
                   !.calls = <<Call(activity, json_dumps(to_dict(data_class, r.value)))>>]

\* a later yield ctx.call_activity(activity, input=input)
Awaiting(o, activity, input) ==
    [o EXCEPT !.call = <<Call(activity, input)>>,
              !.calls = Append(@, Call(activity, input))]

\* the activity function registered under a name, run on an input
run_activity(activity, input) ==
    IF activity = "determine_agent_routing" THEN determine_agent_routing("ctx", input)
    ELSE IF activity = "execute_agent_request" THEN execute_agent_request("ctx", input)
    ELSE IF activity = "plan_agent_collaboration" THEN plan_agent_collaboration("ctx", input)
    ELSE manage_topic("ctx", input)

\* from_dict(AgentResponse, json.loads(response_json)) for the result of an
\* activity (an exception of the activity is raised at the yield); the
\* statements that follow read attributes of the response
agent_response(result) ==
    Try(Try(Try(result, json_loads),
            LAMBDA data : from_dict("AgentResponse", data)),
        LAMBDA response : IF is_instance(response) THEN Return(response)
                          ELSE Raise("AttributeError",
                                     "object has no attribute 'next_action'"))

Completed(o, output) ==
    [o EXCEPT !.status = "completed", !.call = <<>>, !.output = <<output>>]

\* variant: the request is kept in a module global that the instance
\* started last has overwritten
hybrid_request_of_last_started(request_json) ==
    Try(Try(json_loads(IF concurrent.peer # <<>> /\ concurrent.peer[1].status # "scheduled"
                       THEN concurrent.peer[1].input ELSE request_json),
            LAMBDA data : from_dict("ConversationRequest", data)),
        LAMBDA request : IF is_instance(request) THEN Return(request)
                         ELSE Raise("AttributeError", "object has no attribute 'user_id'"))

\* hybrid_agent_conversation_orchestrator up to its try block; the
\* logger.info line reads request.user_id
hybrid_request(request_json) ==
    Try(Try(json_loads(request_json),
            LAMBDA data : from_dict("ConversationRequest", data)),
        LAMBDA request : IF is_instance(request) THEN Return(request)
                         ELSE Raise("AttributeError", "object has no attribute 'user_id'"))

\* routing_decision = from_dict(AgentRoutingDecision, json.loads(routing_decision_json))
hybrid_routing_decision(result) ==
    Try(Try(result, json_loads),
        LAMBDA data : from_dict("AgentRoutingDecision", data))

\* variant: the except block reports the endpoint the worker process was
\* configured with
hybrid_error_response_with_endpoint(ex) ==
    json_dumps(to_dict("AgentResponse",
        AgentResponse(
            "I apologize, but I encountered an error processing your request. Please try again.",
            "Error", "system", None,
            [error |-> ex, endpoint |-> routing_service.azure_ai_endpoint], FALSE, None)))

\* the except block of hybrid_agent_conversation_orchestrator
hybrid_error_response(ex) ==
    json_dumps(to_dict("AgentResponse",
        AgentResponse(
            "I apologize, but I encountered an error processing your request. Please try again.",
            "Error", "system", None, [error |-> ex], FALSE, None)))

\* step 2 of the hybrid orchestrator: the input of execute_agent_request
hybrid_input_data(request, routing_decision) ==
    JsonObject([request |-> to_dict("ConversationRequest", request),
                routing |-> to_dict("AgentRoutingDecision", routing_decision)])

\* step 3 of the hybrid orchestrator: the two conditions that lead to the
\* escalation call
hybrid_escalates(response, routing_decision) ==
    /\ response.requires_follow_up
    /\ routing_decision.selected_agent = "COPILOT_STUDIO"
    /\ response.next_action = "escalate"

hybrid_escalation_request(request, response) ==
    ConversationRequest(
        request.user_id,
        "Continue conversation: " \o str(response.message)
            \o ". Original request: " \o str(request.message),
        response.conversation_id, response.context, "AZURE_AI_ONLY")

\* variant: the combined response passes on the next action of the
\* escalation response
hybrid_combined_response_keeps_next_action(response, escalation_response) ==
    AgentResponse(
        str(response.message) \o "\n\n[Escalated to Azure AI]\n"
            \o str(escalation_response.message),
        "Hybrid", "hybrid-routing", response.conversation_id,
        merged(or_empty(response.context), or_empty(escalation_response.context)),
        escalation_response.requires_follow_up, escalation_response.next_action)

\* the combined response of the hybrid orchestrator
hybrid_combined_response(response, escalation_response) ==
    AgentResponse(
        str(response.message) \o "\n\n[Escalated to Azure AI]\n"
            \o str(escalation_response.message),
        "Hybrid", "hybrid-routing", response.conversation_id,
        merged(or_empty(response.context), or_empty(escalation_response.context)),
        escalation_response.requires_follow_up, None)

\* the decisions the orchestrators construct
follow_up_escalation_routing ==
    AgentRoutingDecision("AZURE_AI", "Follow-up escalation", 10, EmptyDict)

step_routing(step) ==
    AgentRoutingDecision(step.agent_type, step.description, 10, EmptyDict)

topic_escalation_routing ==
    AgentRoutingDecision("AZURE_AI", "Topic escalation", 10, EmptyDict)

\* escalation_input of the hybrid orchestrator
hybrid_escalation_input(request, response) ==
    JsonObject([request |-> to_dict("ConversationRequest",
                                    hybrid_escalation_request(request, response)),
                routing |-> to_dict("AgentRoutingDecision", follow_up_escalation_routing)])

\* multi_agent_collaboration_orchestrator up to its try block; the
\* logger.info line reads request.task_description
collaboration_request(request_json) ==
    Try(Try(json_loads(request_json),
            LAMBDA data : from_dict("MultiAgentRequest", data)),
        LAMBDA request : IF is_instance(request) THEN Return(request)
                         ELSE Raise("AttributeError",
                                    "object has no attribute 'task_description'"))

\* [from_dict(AgentCollaborationStep, step_data) for step_data in ...]:
\* the first element from_dict raises at ends the comprehension; the loop
\* that follows reads attributes of every step
steps_of(data) ==
    IF data.json # "array"
    THEN Raise("AttributeError", "'str' object has no attribute 'description'")
    ELSE IF \E k \in 1..Len(data.items) :
                from_dict("AgentCollaborationStep", data.items[k]).raised # ""
    THEN from_dict("AgentCollaborationStep",
                   data.items[CHOOSE k \in 1..Len(data.items) :
                       /\ from_dict("AgentCollaborationStep", data.items[k]).raised # ""
                       /\ \A j \in 1..(k - 1) :
                             from_dict("AgentCollaborationStep", data.items[j]).raised = ""])
    ELSE IF \E k \in 1..Len(data.items) : ~is_instance(data.items[k])
    THEN Raise("AttributeError", "object has no attribute 'description'")
    ELSE Return([k \in 1..Len(data.items) |->
                    from_dict("AgentCollaborationStep", data.items[k]).value])

\* collaboration_plan of the collaboration orchestrator
collaboration_plan_of(result) == Try(Try(result, json_loads), steps_of)

_get_routing_preference(agent_type) ==
    IF agent_type = "COPILOT_STUDIO" THEN "COPILOT_STUDIO_ONLY"
    ELSE IF agent_type = "AZURE_AI" THEN "AZURE_AI_ONLY"
    ELSE "AUTO"

\* variant: the context of the request is laid under the step's own
step_request_with_request_context(request, step) ==
    ConversationRequest(request.user_id, step.prompt, None,
                        merged(or_empty(request.context), or_empty(step.input_context)),
                        _get_routing_preference(step.agent_type))

step_request(request, step) ==
    ConversationRequest(request.user_id, step.prompt, None, step.input_context,
                        _get_routing_preference(step.agent_type))

step_input(request, step) ==
    JsonObject([request |-> to_dict("ConversationRequest", step_request(request, step)),
                routing |-> to_dict("AgentRoutingDecision", step_routing(step))])

\* json.dumps([to_dict(response) for response in responses])
dump_responses(responses) ==
    json_dumps(JsonArray(
        [k \in 1..Len(responses) |-> to_dict("AgentResponse", responses[k])]))

\* the error response of the except block of the collaboration orchestrator
collaboration_error_response(ex) ==
    AgentResponse(
        "I encountered an error during the multi-agent collaboration. Please try again.",
        "Error", "system", None, [error |-> ex], FALSE, None)

\* topic_based_conversation_orchestrator up to its try block; the
\* logger.info line reads request.topic_id
topic_request(request_json) ==
    Try(Try(json_loads(request_json),
            LAMBDA data : from_dict("TopicManagementRequest", data)),
        LAMBDA request : IF is_instance(request) THEN Return(request)
                         ELSE Raise("AttributeError", "object has no attribute 'topic_id'"))

\* the condition that leads to the escalation call of the topic orchestrator
topic_escalates(response) == response.next_action = "escalate"

topic_escalation_request(request, response) ==
    ConversationRequest(
        "system",
        "Handle escalation from Copilot Studio topic " \o request.topic_id
            \o ": " \o str(response.message),
        None, response.context, "AZURE_AI_ONLY")

topic_escalation_input(request, response) ==
    JsonObject([request |-> to_dict("ConversationRequest",
                                    topic_escalation_request(request, response)),
                routing |-> to_dict("AgentRoutingDecision", topic_escalation_routing)])

\* variant: the original response's value is kept for a key of both contexts
topic_combined_response_original_wins(response, escalation_response) ==
    AgentResponse(
        str(response.message) \o "\n\n[Escalated Response]\n"
            \o str(escalation_response.message),
        "Hybrid", "topic-escalation", response.conversation_id,
        merged(or_empty(escalation_response.context), or_empty(response.context)),
        FALSE, None)

\* variant: the follow-up flag of the escalation response is copied, as the
\* hybrid orchestrator does
topic_combined_response_copies_follow_up(response, escalation_response) ==
    AgentResponse(
        str(response.message) \o "\n\n[Escalated Response]\n"
            \o str(escalation_response.message),
        "Hybrid", "topic-escalation", response.conversation_id,
        merged(or_empty(response.context), or_empty(escalation_response.context)),
        escalation_response.requires_follow_up, None)

\* the combined response of the topic orchestrator
topic_combined_response(response, escalation_response) ==
    AgentResponse(
        str(response.message) \o "\n\n[Escalated Response]\n"
            \o str(escalation_response.message),
        "Hybrid", "topic-escalation", response.conversation_id,
        merged(or_empty(response.context), or_empty(escalation_response.context)),
        FALSE, None)

\* the except block of the topic orchestrator
topic_error_response(ex, request) ==
    json_dumps(to_dict("AgentResponse",
        AgentResponse("I encountered an error managing the topic. Please try again.",
                      "Error", "system", None,
                      [error |-> ex, topicId |-> request.topic_id], FALSE, None)))

---------------------------------------------------------------------------
(* Inputs *)

\* phrases that messages and task descriptions are composed of
Phrases ==
    {"Help me create a workflow for customer approval process",
     "Please analyze this complex technical architecture and generate creative solutions",
     "EXPLAIN the Policy",
     "business procedure form step",
     "Reasoning about Code"}

\* texts used as they are
ExtraTexts ==
    {"Help me create a workflow for approval",
     "more information"}

Texts ==
    {join(w) : w \in UNION {[1..n -> Phrases] : n \in 0..MaxWords}} \cup ExtraTexts

UserIds == {"test-user"}

Requests ==
    {ConversationRequest(u, m, None, EmptyDict, p) :
        u \in UserIds, m \in Texts \cup {None}, p \in AgentRoutingPreference}

\* the environments a worker process can be started in
Services ==
    {AgentRoutingService(e, "agent-1") : e \in {None, "https://ai.example"}}

OtherRequests ==
    {ConversationRequest("other-user", m, None, EmptyDict, "AUTO") :
        m \in {"more information", "Reasoning about Code"}}

\* the key/value pairs a hand-written payload gives for a ConversationRequest
MinimalRequestJson(r) ==
    JsonObject([user_id |-> r.user_id, message |-> r.message,
                routing_preference |-> value_of[r.routing_preference]])

\* the texts handed to determine_agent_routing: what an orchestrator sends
\* (json.dumps(to_dict(request))), a payload that names only the keys it
\* sets, and payloads no request can be built from
RoutingPayloads ==
    {json_dumps(to_dict("ConversationRequest", r)) : r \in Requests}
    \cup {MinimalRequestJson(r) : r \in Requests}
    \cup {NotJson,
          JsonArray(<<>>),
          JsonObject([user_id |-> "test-user"]),
          JsonObject([user_id |-> "test-user", message |-> "more information",
                      routing_preference |-> "azure"])}

\* capability names: those of test_collaboration_planning and names on
\* which the substring rules of the selection differ
CapabilityNames ==
    {"process_design", "data_analysis", "automation",
     "creative_process", "Process", "workflow analysis"}

CapabilityDescription(name) ==
    CASE name = "process_design" -> "Design customer onboarding workflows"
      [] name = "data_analysis" -> "Analyze customer behavior patterns"
      [] name = "automation" -> "Create automated notification systems"
      [] OTHER -> "Support the task"

SupportedByLists == UNION {[1..n -> AgentType] : n \in 0..MaxSupportedBy}

Capabilities ==
    {AgentCapability(n, CapabilityDescription(n), l, TRUE) :
        n \in CapabilityNames, l \in SupportedByLists}

TaskPhrases ==
    {"Develop a comprehensive customer onboarding strategy",
     "Complex task requiring multiple agents",
     "analyze the data",
     "Automate the TRIGGER",
     "design a workflow"}

TaskDescriptions == {join(w) : w \in UNION {[1..n -> TaskPhrases] : n \in 0..MaxWords}}

\* requests without capabilities, as _create_general_collaboration_plan gets them
GeneralRequests ==
    {MultiAgentRequest(t, <<>>, u, c) :
        t \in TaskDescriptions, u \in UserIds, c \in {EmptyDict, [stage |-> "intake"]}}

\* the JSON object that denotes a capability
capability_json(c) ==
    JsonObject([name |-> c.name, description |-> c.description,
                supported_by |-> [i \in 1..Len(c.supported_by) |-> value_of[c.supported_by[i]]],
                is_required |-> c.is_required])

\* the JSON object that denotes a MultiAgentRequest
multi_agent_request_json(r) ==
    JsonObject([task_description |-> r.task_description,
                required_capabilities |->
                    [i \in 1..Len(r.required_capabilities) |->
                        capability_json(r.required_capabilities[i])],
                user_id |-> r.user_id,
                context |-> r.context])

\* the same without the optional "context" key
multi_agent_request_json_without_context(r) ==
    JsonObject([task_description |-> r.task_description,
                required_capabilities |->
                    [i \in 1..Len(r.required_capabilities) |->
                        capability_json(r.required_capabilities[i])],
                user_id |-> r.user_id])

\* the capabilities of test_collaboration_planning
PayloadCapabilities ==
    {AgentCapability("process_design", CapabilityDescription("process_design"),
                     <<"COPILOT_STUDIO">>, TRUE),
     AgentCapability("data_analysis", CapabilityDescription("data_analysis"),
                     <<"AZURE_AI">>, TRUE),
     AgentCapability("automation", CapabilityDescription("automation"),
                     <<"POWER_AUTOMATE">>, TRUE)}

PayloadTasks ==
    {"Develop a comprehensive customer onboarding strategy",
     "analyze the data",
     "Automate the TRIGGER"}

\* requests with an empty context and, for one task, with a context that
\* holds keys
PayloadRequests ==
    {MultiAgentRequest(t, l, u, EmptyDict) :
        t \in PayloadTasks,
        l \in UNION {[1..n -> PayloadCapabilities] : n \in 0..MaxCapabilities},
        u \in UserIds}
    \cup {MultiAgentRequest("analyze the data", l, "test-user",
                            [stage |-> "intake", owner |-> "test-user"]) :
            l \in UNION {[1..n -> PayloadCapabilities] : n \in 0..1}}

\* the texts handed to plan_agent_collaboration
PlanningPayloads ==
    {json_dumps(multi_agent_request_json(r)) : r \in PayloadRequests}
    \cup {json_dumps(multi_agent_request_json_without_context(r)) : r \in PayloadRequests}
    \cup {NotJson,
          JsonArray(<<>>),
          JsonObject([user_id |-> "test-user"]),
          JsonObject([task_description |-> "analyze the data", user_id |-> "test-user"])}

\* the answers of the Copilot Studio endpoint: a failure, a completed topic,
\* a topic that asks for escalation, a completed topic that names
\* "escalate" as next topic, and a topic that goes on without escalation
BotReplies ==
    {[status |-> 500],
     [status |-> 200,
      data |-> [message |-> "Your request is registered", conversationId |-> "conv-1",
                topicCompleted |-> TRUE]],
     [status |-> 200,
      data |-> [message |-> "This needs an expert", conversationId |-> "conv-1",
                variables |-> [stage |-> "intake"],
                topicCompleted |-> FALSE, nextTopic |-> "escalate"]],
     [status |-> 200,
      data |-> [message |-> "Closing the topic", variables |-> [stage |-> "closed"],
                topicCompleted |-> TRUE, nextTopic |-> "escalate"]],
     [status |-> 200,
      data |-> [message |-> "Which department?", topicCompleted |-> FALSE]]}

\* the endpoint of a run that has no code path to it
NoEndpoint == [status |-> 503]

\* the functions from which a call of the endpoint is written
GatewayEntries ==
    {"execute_agent_request", "manage_topic",
     "hybrid_agent_conversation_orchestrator",
     "multi_agent_collaboration_orchestrator",
     "topic_based_conversation_orchestrator"}

ExecuteTexts ==
    {"Help me create a workflow for approval",
     "more information",
     "Please analyze this complex technical architecture and generate creative solutions"}

ExecuteRequests ==
    {ConversationRequest(u, m, None, c, p) :
        u \in UserIds, m \in ExecuteTexts, c \in {EmptyDict},
        p \in AgentRoutingPreference}

\* the "routing" entries given to execute_agent_request
RoutingEntries ==
    {to_dict("AgentRoutingDecision", d) :
        d \in {follow_up_escalation_routing,
               AgentRoutingDecision("COPILOT_STUDIO", "Initial analysis and structure",
                                    10, EmptyDict),
               AgentRoutingDecision("POWER_AUTOMATE", "Automation workflow",
                                    10, EmptyDict)}}

\* responses of Copilot Studio that ask for escalation; the second one names
\* keywords of the structured kind
EscalatingResponses ==
    {AgentResponse(m, "CopilotStudio", COPILOT_STUDIO_BOT_ID, "conv-1",
                   [stage |-> "intake"], TRUE, "escalate") :
        m \in {"This needs an expert", "Follow the approval workflow process step by step"}}

\* the inputs the hybrid orchestrator builds for its escalation call
EscalationPayloads ==
    {json_dumps(hybrid_escalation_input(r, v)) :
        r \in ExecuteRequests, v \in EscalatingResponses}

\* the inputs the collaboration orchestrator builds for the steps of the
\* general plans
StepPayloads ==
    {json_dumps(step_input(r, _create_general_collaboration_plan(r)[k])) :
        r \in {MultiAgentRequest(t, <<>>, "test-user", EmptyDict) :
                  t \in {"analyze the data", "Automate the TRIGGER"}},
        k \in 1..2}

\* the texts handed to execute_agent_request: what the orchestrators send
\* (both entries written with to_dict), a payload whose request names only
\* the keys it sets, and payloads no request can be read from
ExecutePayloads ==
    EscalationPayloads \cup StepPayloads \cup
    {json_dumps(JsonObject([request |-> to_dict("ConversationRequest", r),
                            routing |-> d])) :
        r \in ExecuteRequests, d \in RoutingEntries}
    \cup {json_dumps(JsonObject([request |-> MinimalRequestJson(r), routing |-> d])) :
            r \in ExecuteRequests, d \in RoutingEntries}
    \cup {NotJson,
          JsonArray(<<>>),
          JsonObject([routing |-> to_dict("AgentRoutingDecision",
                                          follow_up_escalation_routing)])}

TopicRequests ==
    {TopicManagementRequest("bot-1", "onboarding", a, c) :
        a \in TopicAction, c \in {EmptyDict, [stage |-> "intake"]}}

\* the key/value pairs a hand-written payload gives for a TopicManagementRequest
MinimalTopicJson(r) ==
    JsonObject([bot_id |-> r.bot_id, topic_id |-> r.topic_id,
                action |-> value_of[r.action]])

\* the texts handed to manage_topic and to the topic orchestrator
TopicPayloads ==
    {json_dumps(to_dict("TopicManagementRequest", r)) : r \in TopicRequests}
    \cup {MinimalTopicJson(r) : r \in TopicRequests}
    \cup {NotJson,
          JsonObject([bot_id |-> "bot-1", topic_id |-> "onboarding", action |-> "pause"]),
          JsonObject([bot_id |-> "bot-1"])}

\* pairs (response, escalation_response) the two orchestrators combine: the
\* contexts are absent, disjoint or overlapping, and the escalation response
\* may itself ask for a follow-up and name "escalate" as next action
CombinedPairs ==
    {<<AgentResponse("This needs an expert", "CopilotStudio", COPILOT_STUDIO_BOT_ID,
                     "conv-1", c1, TRUE, "escalate"),
       AgentResponse("Azure AI response to: This needs an expert", "AzureAI",
                     "agent-1", None, c2, f, n)>> :
        c1 \in {NoneDict, EmptyDict, [stage |-> "intake"],
                [stage |-> "intake", owner |-> "test-user"]},
        c2 \in {NoneDict, [stage |-> "plan"], [model |-> "gpt-4"]},
        f \in BOOLEAN, n \in {None, "escalate"}}

\* the request_json of the instances that the model runs a second time
\* (together with another instance, or replayed), by orchestrator
PeerPayloads ==
    [hybrid_agent_conversation_orchestrator |->
        {NotJson,
         MinimalRequestJson(ConversationRequest("test-user", "more information", None,
                                                EmptyDict, "AUTO")),
         json_dumps(to_dict("ConversationRequest",
                            ConversationRequest("test-user", "more information", None,
                                                EmptyDict, "AZURE_AI_ONLY")))},
     multi_agent_collaboration_orchestrator |->
        {NotJson,
         JsonObject([task_description |-> "analyze the data", user_id |-> "test-user"])},
     topic_based_conversation_orchestrator |->
        {NotJson,
         MinimalTopicJson(TopicManagementRequest("bot-1", "onboarding", "ESCALATE",
                                                 EmptyDict)),
         MinimalTopicJson(TopicManagementRequest("bot-1", "onboarding", "START",
                                                 EmptyDict))}]

\* one instance only: no second instance, no earlier run to compare with;
\* `current` tells which instance the variable orchestration holds
NoConcurrency == [peer |-> <<>>, alone |-> <<>>, current |-> 1]

NoRequest == <<>>
NoInput == <<>>
NoArgument == <<>>
NoOrchestration == <<>>

\* the copilot sample schedules no timer and waits for no event
NoTaskHub == <<>>

---------------------------------------------------------------------------
(* The state machine.  Init picks the function exercised and its input.    *)

InitDetermineRouting ==
    /\ entry = "determine_routing"
    /\ conversation_request \in Requests
    /\ activity_input = NoInput
    /\ argument = NoArgument
    /\ orchestration = NoOrchestration

InitDetermineAgentRouting ==
    /\ entry = "determine_agent_routing"
    /\ conversation_request = NoRequest
    /\ activity_input \in RoutingPayloads
    /\ argument = NoArgument
    /\ orchestration = NoOrchestration

InitPlanAgentCollaboration ==
    /\ entry = "plan_agent_collaboration"
    /\ conversation_request = NoRequest
    /\ activity_input \in PlanningPayloads
    /\ argument = NoArgument
    /\ orchestration = NoOrchestration

InitSelectBestAgent ==
    /\ entry = "_select_best_agent_for_capability"
    /\ conversation_request = NoRequest
    /\ activity_input = NoInput
    /\ argument \in Capabilities
    /\ orchestration = NoOrchestration

InitCreateGeneralPlan ==
    /\ entry = "_create_general_collaboration_plan"
    /\ conversation_request = NoRequest
    /\ activity_input = NoInput
    /\ argument \in GeneralRequests
    /\ orchestration = NoOrchestration

InitHybridOrchestrator ==
    /\ entry = "hybrid_agent_conversation_orchestrator"
    /\ conversation_request = NoRequest
    /\ activity_input = NoInput
    /\ argument = NoArgument
    /\ \E request_json \in RoutingPayloads : orchestration = Scheduled(request_json)

InitCollaborationOrchestrator ==
    /\ entry = "multi_agent_collaboration_orchestrator"
    /\ conversation_request = NoRequest
    /\ activity_input = NoInput
    /\ argument = NoArgument
    /\ \E request_json \in PlanningPayloads : orchestration = Scheduled(request_json)

InitExecuteAgentRequest ==
    /\ entry = "execute_agent_request"
    /\ conversation_request = NoRequest
    /\ activity_input \in ExecutePayloads
    /\ argument = NoArgument
    /\ orchestration = NoOrchestration

InitManageTopic ==
    /\ entry = "manage_topic"
    /\ conversation_request = NoRequest
    /\ activity_input \in TopicPayloads
    /\ argument = NoArgument
    /\ orchestration = NoOrchestration

InitTopicOrchestrator ==
    /\ entry = "topic_based_conversation_orchestrator"
    /\ conversation_request = NoRequest
    /\ activity_input = NoInput
    /\ argument = NoArgument
    /\ \E request_json \in TopicPayloads : orchestration = Scheduled(request_json)

\* the combination of a response with its escalation response, as both
\* orchestrators write it, evaluated on one pair
InitCombinedResponse ==
    /\ entry = "combined_response"
    /\ conversation_request = NoRequest
    /\ activity_input = NoInput
    /\ argument \in CombinedPairs
    /\ orchestration = NoOrchestration

Init ==
    /\ \/ InitDetermineRouting
       \/ InitDetermineAgentRouting
       \/ InitPlanAgentCollaboration
       \/ InitSelectBestAgent
       \/ InitCreateGeneralPlan
       \/ InitExecuteAgentRequest
       \/ InitManageTopic
       \/ InitHybridOrchestrator
       \/ InitCollaborationOrchestrator
       \/ InitTopicOrchestrator
       \/ InitCombinedResponse
    /\ copilot_studio \in (IF entry \in GatewayEntries THEN BotReplies ELSE {NoEndpoint})
    /\ routing_service \in Services
    /\ concurrent = NoConcurrency
    /\ replaying = <<>>
    /\ task_hub = NoTaskHub
    /\ executions = <<>>
    /\ other_decision = <<>>
    /\ activity_result = <<>>
    /\ returned = <<>>
    /\ error_log = <<>>

\* the caller keeps what the execution returned and logged
RecordExecution(r) ==
    /\ executions' = Append(executions, [self |-> routing_service, decision |-> r.value])
    /\ error_log' = error_log \o r.log

\* one execution of routing_service.determine_routing(request)
DetermineRouting ==
    /\ entry = "determine_routing"
    /\ Len(executions) < MaxExecutions
    /\ RecordExecution(determine_routing(routing_service, conversation_request))
    /\ UNCHANGED <<inputs, replaying, task_hub, concurrent, routing_service,
                   other_decision, activity_result, returned, orchestration>>

\* another caller's determine_routing, between two executions for the request
DetermineRoutingOther ==
    /\ entry = "determine_routing"
    /\ \E o \in OtherRequests :
          other_decision' = <<determine_routing(routing_service, o).value>>
    /\ other_decision' # other_decision
    /\ UNCHANGED <<inputs, replaying, task_hub, concurrent, routing_service, executions,
                   activity_result, returned, orchestration, error_log>>

\* the worker process is restarted (a replay runs in a process constructed anew)
RestartWorker ==
    /\ entry = "determine_routing"
    /\ \E s \in Services : routing_service' = s
    /\ routing_service' # routing_service
    /\ UNCHANGED <<inputs, replaying, task_hub, concurrent, executions, other_decision,
                   activity_result, returned, orchestration, error_log>>

\* the host runs the determine_agent_routing activity on its input
DetermineAgentRoutingActivity ==
    /\ entry = "determine_agent_routing"
    /\ activity_result = <<>>
    /\ activity_result' = <<determine_agent_routing("ctx", activity_input)>>
    /\ error_log' = error_log \o activity_result'[1].log
    /\ UNCHANGED <<inputs, replaying, task_hub, concurrent, routing_service, executions,
                   other_decision, returned, orchestration>>

\* the host runs the plan_agent_collaboration activity on its input
PlanAgentCollaborationActivity ==
    /\ entry = "plan_agent_collaboration"
    /\ activity_result = <<>>
    /\ activity_result' = <<plan_agent_collaboration("ctx", activity_input)>>
    /\ error_log' = error_log \o activity_result'[1].log
    /\ UNCHANGED <<inputs, replaying, task_hub, concurrent, routing_service, executions,
                   other_decision, returned, orchestration>>

\* the host runs the execute_agent_request activity on its input
ExecuteAgentRequestActivity ==
    /\ entry = "execute_agent_request"
    /\ activity_result = <<>>
    /\ activity_result' = <<execute_agent_request("ctx", activity_input)>>
    /\ error_log' = error_log \o activity_result'[1].log
    /\ UNCHANGED <<inputs, replaying, task_hub, concurrent, routing_service, executions,
                   other_decision, returned, orchestration>>

\* the host runs the manage_topic activity on its input
ManageTopicActivity ==
    /\ entry = "manage_topic"
    /\ activity_result = <<>>
    /\ activity_result' = <<manage_topic("ctx", activity_input)>>
    /\ error_log' = error_log \o activity_result'[1].log
    /\ UNCHANGED <<inputs, replaying, task_hub, concurrent, routing_service, executions,
                   other_decision, returned, orchestration>>

\* _select_best_agent_for_capability(capability)
SelectBestAgentForCapability ==
    /\ entry = "_select_best_agent_for_capability"
    /\ returned = <<>>
    /\ returned' = <<_select_best_agent_for_capability(argument)>>
    /\ UNCHANGED <<inputs, replaying, task_hub, concurrent, routing_service, executions,
                   other_decision, activity_result, orchestration, error_log>>

\* _create_general_collaboration_plan(request)
CreateGeneralCollaborationPlan ==
    /\ entry = "_create_general_collaboration_plan"
    /\ returned = <<>>
    /\ returned' = <<_create_general_collaboration_plan(argument)>>
    /\ UNCHANGED <<inputs, replaying, task_hub, concurrent, routing_service, executions,
                   other_decision, activity_result, orchestration, error_log>>

\* hybrid_agent_conversation_orchestrator runs up to its first yield
HybridStart ==
    /\ entry = "hybrid_agent_conversation_orchestrator"
    /\ orchestration.status = "scheduled"
    /\ orchestration' = Started(orchestration, hybrid_request(orchestration.input),
                                "determine_agent_routing", "ConversationRequest")
    /\ UNCHANGED <<inputs, replaying, task_hub, concurrent, routing_service, executions,
                   other_decision, activity_result, returned, error_log>>

\* topic_based_conversation_orchestrator runs up to its first yield
TopicStart ==
    /\ entry = "topic_based_conversation_orchestrator"
    /\ orchestration.status = "scheduled"
    /\ orchestration' = Started(orchestration, topic_request(orchestration.input),
                                "manage_topic", "TopicManagementRequest")
    /\ UNCHANGED <<inputs, replaying, task_hub, concurrent, routing_service, executions,
                   other_decision, activity_result, returned, error_log>>

\* the host runs the activity an orchestrator awaits
\* the awaited call, the last one issued, has its result
Received(o, r) ==
    [o EXCEPT !.call[1].result = <<r>>, !.calls[Len(o.calls)].result = <<r>>]

\* the history holds an output for the call the orchestrator awaits
InHistory(o, recorded) ==
    /\ recorded # <<>>
    /\ Len(o.calls) <= Len(recorded[1].calls)
    /\ recorded[1].calls[Len(o.calls)].result # <<>>

\* what the host hands to the orchestrator for the call it awaits: on a
\* replay the output recorded in the history, the activity is not run
\* again; otherwise what the activity returns or raises now
delivered(o, recorded) ==
    IF InHistory(o, recorded)
    THEN recorded[1].calls[Len(o.calls)].result[1]
    ELSE run_activity(o.call[1].activity, o.call[1].input)

RunActivity ==
    /\ orchestration # NoOrchestration
    /\ orchestration.status = "awaiting"
    /\ orchestration.call[1].result = <<>>
    /\ orchestration' = Received(orchestration, delivered(orchestration, replaying))
    /\ error_log' = IF InHistory(orchestration, replaying) THEN error_log
                    ELSE error_log \o orchestration'.call[1].result[1].log
    /\ UNCHANGED <<inputs, replaying, task_hub, concurrent, routing_service, executions,
                   other_decision, activity_result, returned>>

\* an exception inside the try block: the except block logs it and the
\* orchestrator returns error_output
Caught(r, error_output, line) ==
    /\ orchestration' = Completed(orchestration, error_output)
    /\ error_log' = error_log \o <<line \o r.value>>

\* the orchestrator runs on to its next yield or to its return
Continued(next) ==
    /\ orchestration' = next
    /\ UNCHANGED error_log

hybrid_error_line == "Error in hybrid agent conversation for user "

\* the hybrid orchestrator resumed with the routing activity's result: r is
\* what from_dict made of it
HybridRouted(r) ==
    IF r.raised # ""
    THEN Caught(r, hybrid_error_response(r.value),
                hybrid_error_line \o orchestration.request[1].user_id \o ": ")
    ELSE Continued(Awaiting([orchestration EXCEPT !.routing_decision = <<r.value>>],
                            "execute_agent_request",
                            json_dumps(hybrid_input_data(orchestration.request[1], r.value))))

\* ... resumed with the response of the selected agent (steps 2 and 3)
HybridExecuted(r) ==
    IF r.raised # ""
    THEN Caught(r, hybrid_error_response(r.value),
                hybrid_error_line \o orchestration.request[1].user_id \o ": ")
    ELSE IF hybrid_escalates(r.value, orchestration.routing_decision[1])
    THEN Continued(Awaiting([orchestration EXCEPT !.response = <<r.value>>],
                            "execute_agent_request",
                            json_dumps(hybrid_escalation_input(orchestration.request[1],
                                                               r.value))))
    ELSE Continued(Completed([orchestration EXCEPT !.response = <<r.value>>],
                             json_dumps(to_dict("AgentResponse", r.value))))

\* ... resumed with the escalation response
HybridEscalated(r) ==
    IF r.raised # ""
    THEN Caught(r, hybrid_error_response(r.value),
                hybrid_error_line \o orchestration.request[1].user_id \o ": ")
    ELSE Continued(Completed(orchestration,
             json_dumps(to_dict("AgentResponse",
                 hybrid_combined_response(orchestration.response[1], r.value)))))

HybridResume ==
    IF orchestration.routing_decision = <<>>
    THEN HybridRouted(hybrid_routing_decision(orchestration.call[1].result[1]))
    ELSE IF orchestration.response = <<>>
    THEN HybridExecuted(agent_response(orchestration.call[1].result[1]))
    ELSE HybridEscalated(agent_response(orchestration.call[1].result[1]))

\* the except block of the collaboration orchestrator: the error response is
\* appended to the responses collected so far
CollaborationCaught(r) ==
    Caught(r,
           dump_responses(Append(orchestration.responses,
                                 collaboration_error_response(r.value))),
           "Error in multi-agent collaboration: ")

\* the collaboration orchestrator resumed with the plan: r is the list of
\* steps from_dict made of it; the loop runs to the yield of the first step
CollaborationPlanned(r) ==
    IF r.raised # ""
    THEN CollaborationCaught(r)
    ELSE IF Len(r.value) = 0
    THEN Continued(Completed([orchestration EXCEPT !.collaboration_plan = <<r.value>>],
                             dump_responses(<<>>)))
    ELSE Continued(Awaiting([orchestration EXCEPT !.collaboration_plan = <<r.value>>,
                                                  !.i = 0],
                            "execute_agent_request",
                            json_dumps(step_input(orchestration.request[1], r.value[1]))))

\* the plan once the response to step i has been handled (i counts from 0,
\* so step i is element i + 1 of the sequence)
plan_after(collaboration_plan, i, step_response) ==
    IF i < Len(collaboration_plan) - 1
    THEN [collaboration_plan EXCEPT
             ![i + 2].input_context =
                 merged(or_empty(@), or_empty(step_response.context))]
    ELSE collaboration_plan

\* ... resumed with the response to step i: the loop runs to the next yield
\* or the orchestrator returns the responses
CollaborationStepped(r) ==
    IF r.raised # ""
    THEN CollaborationCaught(r)
    ELSE IF orchestration.i < Len(orchestration.collaboration_plan[1]) - 1
    THEN Continued(Awaiting(
             [orchestration EXCEPT
                 !.responses = Append(@, r.value),
                 !.collaboration_plan =
                     <<plan_after(orchestration.collaboration_plan[1],
                                  orchestration.i, r.value)>>,
                 !.i = @ + 1],
             "execute_agent_request",
             json_dumps(step_input(
                 orchestration.request[1],
                 plan_after(orchestration.collaboration_plan[1],
                            orchestration.i, r.value)[orchestration.i + 2]))))
    ELSE Continued(Completed([orchestration EXCEPT !.responses = Append(@, r.value)],
                             dump_responses(Append(orchestration.responses, r.value))))

CollaborationResume ==
    IF orchestration.collaboration_plan = <<>>
    THEN CollaborationPlanned(collaboration_plan_of(orchestration.call[1].result[1]))
    ELSE CollaborationStepped(agent_response(orchestration.call[1].result[1]))

topic_error_line == "Error in topic-based conversation for "

\* the topic orchestrator resumed with the response of manage_topic
TopicManaged(r) ==
    IF r.raised # ""
    THEN Caught(r, topic_error_response(r.value, orchestration.request[1]),
                topic_error_line \o orchestration.request[1].topic_id \o ": ")
    ELSE IF topic_escalates(r.value)
    THEN Continued(Awaiting([orchestration EXCEPT !.response = <<r.value>>],
                            "execute_agent_request",
                            json_dumps(topic_escalation_input(orchestration.request[1],
                                                              r.value))))
    ELSE Continued(Completed([orchestration EXCEPT !.response = <<r.value>>],
                             json_dumps(to_dict("AgentResponse", r.value))))

\* ... resumed with the escalation response
TopicEscalated(r) ==
    IF r.raised # ""
    THEN Caught(r, topic_error_response(r.value, orchestration.request[1]),
                topic_error_line \o orchestration.request[1].topic_id \o ": ")
    ELSE Continued(Completed(orchestration,
             json_dumps(to_dict("AgentResponse",
                 topic_combined_response(orchestration.response[1], r.value)))))

TopicResume ==
    IF orchestration.response = <<>>
    THEN TopicManaged(agent_response(orchestration.call[1].result[1]))
    ELSE TopicEscalated(agent_response(orchestration.call[1].result[1]))

\* the host resumes the orchestrator with the result of the awaited activity
Resume ==
    /\ orchestration # NoOrchestration
    /\ orchestration.status = "awaiting"
    /\ orchestration.call[1].result # <<>>
    /\ IF entry = "hybrid_agent_conversation_orchestrator" THEN HybridResume
       ELSE IF entry = "multi_agent_collaboration_orchestrator" THEN CollaborationResume
       ELSE TopicResume
    /\ UNCHANGED <<inputs, replaying, task_hub, concurrent, routing_service, executions,
                   other_decision, activity_result, returned>>

\* multi_agent_collaboration_orchestrator runs up to its first yield
CollaborationStart ==
    /\ entry = "multi_agent_collaboration_orchestrator"
    /\ orchestration.status = "scheduled"
    /\ orchestration' = Started(orchestration, collaboration_request(orchestration.input),
                                "plan_agent_collaboration", "MultiAgentRequest")
    /\ UNCHANGED <<inputs, replaying, task_hub, concurrent, routing_service, executions,
                   other_decision, activity_result, returned, error_log>>

\* what the host sees of an instance that is over
Outcome(o) ==
    [status |-> o.status, calls |-> o.calls, output |-> o.output, failure |-> o.failure]

\* an instance has run alone to its end: the host schedules the same input
\* again, together with a second instance of the orchestrator
StartConcurrently ==
    /\ orchestration # NoOrchestration
    /\ orchestration.status \in {"completed", "failed"}
    /\ orchestration.input \in PeerPayloads[entry]
    /\ concurrent = NoConcurrency
    /\ replaying = <<>>
    /\ \E request_json \in PeerPayloads[entry] :
          concurrent' = [peer |-> <<Scheduled(request_json)>>,
                         alone |-> <<Outcome(orchestration)>>,
                         current |-> 1]
    /\ orchestration' = Scheduled(orchestration.input)
    /\ UNCHANGED <<inputs, replaying, task_hub, routing_service, executions,
                   other_decision, activity_result, returned, error_log>>

\* the host turns to the other instance: a suspended generator keeps its
\* local variables
Switch ==
    /\ concurrent.peer # <<>>
    /\ concurrent.peer[1].status \in {"scheduled", "awaiting"}
    /\ orchestration' = concurrent.peer[1]
    /\ concurrent' = [concurrent EXCEPT !.peer = <<orchestration>>, !.current = 3 - @]
    /\ UNCHANGED <<inputs, replaying, task_hub, routing_service, executions,
                   other_decision, activity_result, returned, error_log>>

\* the worker process stops and another one, constructed anew in the
\* environment it finds, takes the instance over: the host runs the
\* orchestrator function again from its start, on the same input and against
\* the history recorded so far; the endpoint need not answer as it did
Replay ==
    /\ orchestration # NoOrchestration
    /\ orchestration.status # "scheduled"
    /\ orchestration.input \in PeerPayloads[entry]
    /\ concurrent = NoConcurrency
    /\ replaying = <<>>
    /\ \E s \in Services : routing_service' = s
    /\ \E reply \in BotReplies : copilot_studio' = reply
    /\ replaying' = <<[orchestration EXCEPT
                          !.recorded_in = <<routing_service, copilot_studio>>]>>
    /\ orchestration' = Scheduled(orchestration.input)
    /\ UNCHANGED <<entry, conversation_request, activity_input, argument, task_hub,
                   concurrent, executions, other_decision, activity_result, returned,
                   error_log>>

\* both orchestrators' combined response for the pair
CombinedResponse ==
    /\ entry = "combined_response"
    /\ returned = <<>>
    /\ returned' = <<[hybrid |-> hybrid_combined_response(argument[1], argument[2]),
                      topic |-> topic_combined_response(argument[1], argument[2])]>>
    /\ UNCHANGED <<inputs, replaying, task_hub, concurrent, routing_service, executions,
                   other_decision, activity_result, orchestration, error_log>>

Next ==
    \/ DetermineRouting
    \/ DetermineRoutingOther
    \/ RestartWorker
    \/ DetermineAgentRoutingActivity
    \/ PlanAgentCollaborationActivity
    \/ SelectBestAgentForCapability
    \/ CreateGeneralCollaborationPlan
    \/ ExecuteAgentRequestActivity
    \/ ManageTopicActivity
    \/ HybridStart
    \/ CollaborationStart
    \/ TopicStart
    \/ RunActivity
    \/ Resume
    \/ CombinedResponse
    \/ StartConcurrently
    \/ Switch
    \/ Replay

Spec == Init /\ [][Next]_vars

\* the host runs every work item that is ready: it starts a scheduled
\* orchestrator, runs the activity an orchestrator awaits (which returns or
\* raises), resumes the orchestrator with the result, and turns to an
\* instance that is not over
LiveSpec ==
    /\ Spec
    /\ SF_vars(HybridStart)
    /\ SF_vars(CollaborationStart)
    /\ SF_vars(TopicStart)
    /\ SF_vars(RunActivity)
    /\ SF_vars(Resume)
    /\ WF_vars(Switch)

---------------------------------------------------------------------------
(* Claims *)

\* the keywords of a list that occur in a text
FoundKeywords(keywords, text) ==
    {j \in 1..Len(keywords) : contains(text, keywords[j])}

StructuredCount(message) ==
    Cardinality(FoundKeywords(copilot_studio_keywords, lower(message)))

ReasoningCount(message) ==
    Cardinality(FoundKeywords(azure_ai_keywords, lower(message)))

RoutingRun == entry = "determine_routing"

\* the decision a preference other than AUTO fixes
PreferenceDecision ==
    [PREFER_COPILOT_STUDIO |->
        [agent |-> "COPILOT_STUDIO", reason |-> "User preference for Copilot Studio"],
     COPILOT_STUDIO_ONLY |->
        [agent |-> "COPILOT_STUDIO",
         reason |-> "User explicitly requested Copilot Studio only"],
     PREFER_AZURE_AI |->
        [agent |-> "AZURE_AI", reason |-> "User preference for Azure AI"],
     AZURE_AI_ONLY |->
        [agent |-> "AZURE_AI", reason |-> "User explicitly requested Azure AI only"]]

\* C1: for a request whose routing_preference is not AUTO, every decision
\* determine_routing returns selects the agent the preference fixes, with
\* confidence 1.0 and the preference's fixed reason, whatever the message is
\* (a string with any keywords, or no string at all).
C1_PreferenceDecides ==
    (RoutingRun /\ conversation_request.routing_preference # "AUTO") =>
        \A i \in 1..Len(executions) :
            LET d == executions[i].decision
                fixed == PreferenceDecision[conversation_request.routing_preference]
            IN  /\ d.selected_agent = fixed.agent
                /\ d.confidence = 10
                /\ d.reason = fixed.reason

\* a decision was returned for PREFER_AZURE_AI on a message whose keywords
\* are structured ones only
C1_Witness ==
    /\ RoutingRun
    /\ Len(executions) >= 1
    /\ conversation_request.routing_preference = "PREFER_AZURE_AI"
    /\ conversation_request.message # None
    /\ StructuredCount(conversation_request.message) >= 3
    /\ ReasoningCount(conversation_request.message) = 0

AutoRunOn(message) ==
    /\ RoutingRun
    /\ conversation_request.routing_preference = "AUTO"
    /\ conversation_request.message = message

\* C2: for an AUTO request, when strictly more structured keywords than
\* reasoning keywords occur in the lower-cased message the decision selects
\* COPILOT_STUDIO with confidence min(0.6 + 0.1*count, 1.0), count being the
\* structured count; when strictly more reasoning keywords occur it selects
\* AZURE_AI with the same formula on the reasoning count.
C2_HigherScoreWins ==
    \A m \in Texts :
        AutoRunOn(m) =>
            \A i \in 1..Len(executions) :
                LET d == executions[i].decision
                    s == StructuredCount(m)
                    a == ReasoningCount(m)
                IN  /\ s > a => /\ d.selected_agent = "COPILOT_STUDIO"
                                /\ d.confidence = min(6 + s, 10)
                    /\ a > s => /\ d.selected_agent = "AZURE_AI"
                                /\ d.confidence = min(6 + a, 10)

\* a decision was returned for an AUTO message with more than four reasoning
\* keywords and at least one structured keyword
C2_Witness ==
    /\ RoutingRun
    /\ Len(executions) >= 1
    /\ conversation_request.routing_preference = "AUTO"
    /\ conversation_request.message # None
    /\ ReasoningCount(conversation_request.message) > 4
    /\ StructuredCount(conversation_request.message) >= 1
    /\ executions[1].decision.selected_agent = "AZURE_AI"

\* C3: for an AUTO request whose structured and reasoning counts are equal
\* (0-0 included) the decision selects COPILOT_STUDIO with confidence 0.5
\* and the "No clear indicators" reason.
C3_TieDefaults ==
    \A m \in Texts :
        (AutoRunOn(m) /\ StructuredCount(m) = ReasoningCount(m)) =>
            \A i \in 1..Len(executions) :
                LET d == executions[i].decision
                IN  /\ d.selected_agent = "COPILOT_STUDIO"
                    /\ d.confidence = 5
                    /\ d.reason =
                         "No clear indicators, defaulting to Copilot Studio for structured handling"

\* a decision was returned for an AUTO message with one keyword of each list
C3_Witness ==
    /\ RoutingRun
    /\ Len(executions) >= 1
    /\ conversation_request.routing_preference = "AUTO"
    /\ conversation_request.message # None
    /\ StructuredCount(conversation_request.message) = 1
    /\ ReasoningCount(conversation_request.message) = 1

ActivityRun(name) == entry = name /\ activity_result # <<>>

\* C4: the routing step never fails, and whenever an error occurred while
\* deciding (logged by the routing service or by the determine_agent_routing
\* activity) the decision returned selects COPILOT_STUDIO with confidence 0.5
\* and carries the error in its routing context.
C4_ErrorGivesRecordedFallback ==
    /\ RoutingRun =>
          \A i \in 1..Len(executions) :
              error_log # <<>> =>
                  /\ executions[i].decision.selected_agent = "COPILOT_STUDIO"
                  /\ executions[i].decision.confidence = 5
                  /\ "error" \in DOMAIN executions[i].decision.routing_context
    /\ ActivityRun("determine_agent_routing") =>
          /\ activity_result[1].raised = ""
          /\ activity_result[1].log # <<>> =>
                LET d == activity_result[1].value.members
                IN  /\ d.selected_agent = value_of["COPILOT_STUDIO"]
                    /\ d.confidence = 5
                    /\ "error" \in DOMAIN d.routing_context

\* C5: all executions of determine_routing on one request return the same
\* decision (agent, confidence, reason, routing context), whatever the
\* worker's configuration at each execution and whatever was routed between.
C5_RoutingDeterministic ==
    RoutingRun =>
        \A i, j \in 1..Len(executions) :
            executions[i].decision = executions[j].decision

\* two executions, in differently configured workers, with another
\* request routed meanwhile
C5_Witness ==
    /\ RoutingRun
    /\ Len(executions) = 2
    /\ executions[1].self # executions[2].self
    /\ other_decision # <<>>
    /\ conversation_request.routing_preference = "AUTO"
    /\ conversation_request.message # None

\* confidence within [0.0, 1.0] (in tenths) and one of the four agent types
ValidDecision(d) ==
    /\ d.confidence \in 0..10
    /\ d.selected_agent \in AgentType

\* the same for a decision as json.dumps(to_dict(decision)) writes it
ValidDecisionJson(d) ==
    /\ d.json = "object"
    /\ d.members.confidence \in 0..10
    /\ \E a \in AgentType : d.members.selected_agent = value_of[a]

\* the results of determine_agent_routing held in the state
RoutingActivityResults ==
    (IF ActivityRun("determine_agent_routing") THEN {activity_result[1]} ELSE {})
    \cup (IF /\ entry = "hybrid_agent_conversation_orchestrator"
             /\ orchestration.call # <<>>
             /\ orchestration.call[1].activity = "determine_agent_routing"
             /\ orchestration.call[1].result # <<>>
          THEN {orchestration.call[1].result[1]} ELSE {})

\* no orchestration ever holds an AgentRoutingDecision object: from_dict
\* raises on the routing_context key of every decision the activity returns
NoDecisionReachesOrchestrator ==
    orchestration # NoOrchestration =>
        /\ orchestration.routing_decision = <<>>
        /\ \A i \in 1..Len(orchestration.call) :
              orchestration.call[i].activity # "execute_agent_request"

\* C6: every AgentRoutingDecision of a reachable state has a confidence
\* within [0.0, 1.0] and selects one of the four agent types: the decisions
\* determine_routing returns (its fallback included), the decisions the
\* determine_agent_routing activity returns as JSON, the decision a hybrid
\* orchestration holds or hands to execute_agent_request, and the decisions
\* the orchestrators construct for an escalation or for a step of a plan.
C6_DecisionsValid ==
    /\ \A i \in 1..Len(executions) : ValidDecision(executions[i].decision)
    /\ \A i \in 1..Len(other_decision) : ValidDecision(other_decision[i])
    /\ \A r \in RoutingActivityResults : r.raised = "" /\ ValidDecisionJson(r.value)
    /\ orchestration # NoOrchestration =>
          /\ \A i \in 1..Len(orchestration.routing_decision) :
                ValidDecision(orchestration.routing_decision[i])
          /\ \A i \in 1..Len(orchestration.call) :
                orchestration.call[i].activity = "execute_agent_request" =>
                    ValidDecisionJson(orchestration.call[i].input.members.routing)
    /\ ValidDecision(follow_up_escalation_routing)
    /\ ValidDecision(topic_escalation_routing)
    /\ \A a \in AgentType :
          ValidDecision(step_routing(
              AgentCollaborationStep(a, "Handle automation", "Task", EmptyDict)))

\* the routing activity returned, as JSON, an Azure AI decision whose
\* confidence the cap brought down to 1.0
C6_Witness ==
    /\ ActivityRun("determine_agent_routing")
    /\ activity_result[1].log = <<>>
    /\ activity_result[1].value.members.selected_agent = value_of["AZURE_AI"]
    /\ activity_result[1].value.members.confidence = 10
    /\ ReasoningCount(activity_input.members.message) > 4

PlanRun == ActivityRun("plan_agent_collaboration")

GeneralPlanRun == entry = "_create_general_collaboration_plan" /\ returned # <<>>

SelectionRun == entry = "_select_best_agent_for_capability" /\ returned # <<>>

\* the input of the planning activity denotes a MultiAgentRequest
RequestPayload ==
    /\ activity_input.json = "object"
    /\ {"task_description", "required_capabilities", "user_id"}
           \subseteq DOMAIN activity_input.members

\* C7: the plan returned by plan_agent_collaboration is never empty: for
\* every MultiAgentRequest handed to it (with or without capabilities,
\* whether planning succeeded or an error was logged) the activity returns
\* a sequence of at least one step; so does the general plan.
C7_PlanNeverEmpty ==
    /\ (PlanRun /\ RequestPayload) =>
          /\ activity_result[1].raised = ""
          /\ activity_result[1].value.json = "array"
          /\ Len(activity_result[1].value.items) >= 1
    /\ GeneralPlanRun => Len(returned[1]) >= 1

\* the activity returned a plan for a request without capabilities after
\* logging a planning error
C7_Witness ==
    /\ PlanRun
    /\ RequestPayload
    /\ activity_input.members.required_capabilities = <<>>
    /\ activity_result[1].log # <<>>
    /\ activity_result[1].raised = ""

\* C8: when required_capabilities is not empty the plan has as many steps
\* as there are capabilities and step i is built from capability i.
C8_OneStepPerCapability ==
    (PlanRun /\ RequestPayload
        /\ Len(activity_input.members.required_capabilities) > 0) =>
        LET capabilities == activity_input.members.required_capabilities
            plan == activity_result[1].value
        IN  /\ activity_result[1].raised = ""
            /\ Len(plan.items) = Len(capabilities)
            /\ \A i \in 1..Len(capabilities) :
                  plan.items[i].members.description =
                      "Handle " \o capabilities[i].members.name \o ": "
                          \o capabilities[i].members.description

\* the agent the three ordered rules select for a capability
RuleAgent(capability) ==
    LET supported == {capability.supported_by[i] : i \in 1..Len(capability.supported_by)}
        named(words) == \E w \in words : contains(capability.name, w)
    IN  IF "COPILOT_STUDIO" \in supported /\ named({"workflow", "process"})
        THEN "COPILOT_STUDIO"
        ELSE IF "AZURE_AI" \in supported /\ named({"analysis", "creative"})
        THEN "AZURE_AI"
        ELSE IF supported = {} THEN "COPILOT_STUDIO"
        ELSE Head(capability.supported_by)

\* the request names the single capability "automation", supported by
\* Power Automate only
AutomationOnly ==
    /\ RequestPayload
    /\ Len(activity_input.members.required_capabilities) = 1
    /\ activity_input.members.required_capabilities[1].members.name = "automation"
    /\ activity_input.members.required_capabilities[1].members.supported_by
          = <<value_of["POWER_AUTOMATE"]>>

\* on AgentCapability objects the helper returns the agent of the rules
SelectionFollowsRules == SelectionRun => returned[1] = RuleAgent(argument)

\* C9: the agent selected for a capability follows the three ordered rules,
\* and the plan for the single capability "automation" supported by Power
\* Automate only is one step whose agent type is Power Automate.
C9_SelectionRules ==
    /\ SelectionFollowsRules
    /\ (PlanRun /\ AutomationOnly) =>
          /\ activity_result[1].raised = ""
          /\ Len(activity_result[1].value.items) = 1
          /\ activity_result[1].value.items[1].members.agent_type
                = value_of["POWER_AUTOMATE"]

\* the agent types the keyword rules give for a task description: the
\* structured step, then the reasoning step iff the description contains
\* "complex", "analyze" or "creative", then the automation step iff it
\* contains "automate", "flow" or "trigger"
KeywordPlan(task_description) ==
    <<"COPILOT_STUDIO">>
    \o (IF any_keyword_in(<<"complex", "analyze", "creative">>, task_description)
        THEN <<"AZURE_AI">> ELSE <<>>)
    \o (IF any_keyword_in(<<"automate", "flow", "trigger">>, task_description)
        THEN <<"POWER_AUTOMATE">> ELSE <<>>)

\* on MultiAgentRequest objects the helper returns the plan of the keyword
\* rules applied to the lower-cased task description
GeneralPlanFollowsLoweredKeywords ==
    GeneralPlanRun =>
        [i \in 1..Len(returned[1]) |-> returned[1][i].agent_type]
            = KeywordPlan(lower(argument.task_description))

\* C10: when required_capabilities is empty the plan is the general plan:
\* one to three steps whose agent types are those the keyword rules give
\* for the task description, in the order structured, reasoning, automation.
C10_GeneralPlanFollowsKeywords ==
    /\ (PlanRun /\ RequestPayload
          /\ activity_input.members.required_capabilities = <<>>) =>
          LET plan == activity_result[1].value
              expected == KeywordPlan(activity_input.members.task_description)
          IN  /\ activity_result[1].raised = ""
              /\ Len(plan.items) = Len(expected)
              /\ \A i \in 1..Len(expected) :
                    plan.items[i].members.agent_type = value_of[expected[i]]
    /\ GeneralPlanRun =>
          [i \in 1..Len(returned[1]) |-> returned[1][i].agent_type]
              = KeywordPlan(argument.task_description)

\* the except block of the planning activity ran: it logged the error
PlanningFailed == PlanRun /\ activity_result[1].log # <<>>

\* the JSON text is the one-step fallback plan
FallbackPlan(plan) ==
    /\ plan.json = "array"
    /\ Len(plan.items) = 1
    /\ plan.items[1].members.agent_type = value_of["COPILOT_STUDIO"]
    /\ plan.items[1].members.description = "Handle request with error recovery"

\* C11: whenever an exception is raised during planning (a payload that
\* cannot be parsed or reconstructed included) plan_agent_collaboration
\* returns the one-step fallback plan (Copilot Studio, "error recovery") and
\* no exception leaves the activity.
C11_PlanningErrorGivesFallback ==
    PlanningFailed =>
        /\ activity_result[1].raised = ""
        /\ FallbackPlan(activity_result[1].value)

\* when the payload denotes a JSON object, a planning error does end in the
\* fallback plan
PlanningErrorOnObjectGivesFallback ==
    (PlanningFailed /\ activity_input.json = "object") =>
        /\ activity_result[1].raised = ""
        /\ FallbackPlan(activity_result[1].value)

\* an orchestration of the given orchestrator has returned its output
Ended(orchestrator) ==
    /\ entry = orchestrator
    /\ orchestration.status = "completed"

gateway_call(call) == call.activity = "execute_agent_request"

\* the gateway calls (execute_agent_request) the orchestration has issued
GatewayCalls == SelectSeq(orchestration.calls, gateway_call)

\* no orchestration ever issues a gateway call: every one of them ends, or
\* fails, at a from_dict before its first execute_agent_request
NoGatewayCallFromOrchestrators ==
    orchestration # NoOrchestration => Len(GatewayCalls) = 0

\* C12: a hybrid workflow that has returned has obtained a first response
\* through one gateway call; it has issued a second (escalation) gateway
\* call exactly when that response has requires_follow_up = true and
\* next_action = "escalate" and the selected agent was Copilot Studio, and
\* otherwise its output is the first response, unchanged in every field.
C12_EscalationIffSignalled ==
    Ended("hybrid_agent_conversation_orchestrator") =>
        /\ orchestration.response # <<>>
        /\ Len(GatewayCalls) =
              (IF hybrid_escalates(orchestration.response[1],
                                   orchestration.routing_decision[1])
               THEN 2 ELSE 1)
        /\ Len(GatewayCalls) = 1 =>
              orchestration.output[1] =
                  json_dumps(to_dict("AgentResponse", orchestration.response[1]))

HybridEnded == Ended("hybrid_agent_conversation_orchestrator")

\* what the gateway answers to the request of the hybrid workflow, and the
\* decision it is executed under
HybridFirstResponse == route_and_execute(routing_service, orchestration.request[1])

HybridSelection == determine_routing(routing_service, orchestration.request[1])

\* the hybrid workflow has returned for a request whose first response
\* signals escalation from Copilot Studio
HybridEscalationDue ==
    /\ HybridEnded
    /\ HybridFirstResponse.raised = ""
    /\ hybrid_escalates(HybridFirstResponse.value, HybridSelection.value)

\* what the gateway answers to the escalation request built from it
HybridEscalationResponse ==
    route_and_execute(routing_service,
                      hybrid_escalation_request(orchestration.request[1],
                                                HybridFirstResponse.value))

\* the returned response is the merge of the two: agent type "Hybrid",
\* the messages joined by the separator tag, the union of the contexts with
\* the escalation response's value for a key of both, and its follow-up flag
MergedOutput(output, first, second) ==
    /\ output.agent_type = "Hybrid"
    /\ output.requires_follow_up = second.requires_follow_up
    /\ output.message =
          first.message \o "\n\n[Escalated to Azure AI]\n" \o second.message
    /\ DOMAIN output.context =
          DOMAIN or_empty(first.context) \cup DOMAIN or_empty(second.context)
    /\ \A k \in DOMAIN output.context :
          output.context[k] =
              (IF k \in DOMAIN or_empty(second.context)
               THEN second.context[k] ELSE first.context[k])

HybridMergeAsWritten ==
    HybridEscalationDue =>
        MergedOutput(hybrid_combined_response(HybridFirstResponse.value,
                                              HybridEscalationResponse.value),
                     HybridFirstResponse.value,
                     HybridEscalationResponse.value)

ExecuteRun == ActivityRun("execute_agent_request")

\* the request entry of a gateway call's input
call_request(call) == call.input.members.request.members

\* a gateway call for the escalation request of the hybrid workflow: the
\* original user, the Azure-AI-only preference, a message that holds the
\* prior response's message and the original request's message
escalation_call(call, request, response) ==
    /\ call.activity = "execute_agent_request"
    /\ call_request(call).user_id = request.user_id
    /\ call_request(call).routing_preference = value_of["AZURE_AI_ONLY"]
    /\ contains(call_request(call).message, response.message)
    /\ contains(call_request(call).message, request.message)

\* C14: when the hybrid workflow escalates, it issues a gateway call for an
\* escalation request that keeps the original user, carries the
\* Azure-AI-only preference and a message holding the prior response's and
\* the original request's messages; and a gateway call for such a request
\* is executed by the Azure AI agent whatever keywords the messages hold.
C14_EscalationForcedToAzureAI ==
    /\ HybridEscalationDue =>
          \E k \in 1..Len(orchestration.calls) :
              escalation_call(orchestration.calls[k], orchestration.request[1],
                              HybridFirstResponse.value)
    /\ (ExecuteRun /\ activity_input \in EscalationPayloads) =>
          /\ activity_result[1].raised = ""
          /\ activity_result[1].value.members.agent_type = "AzureAI"

\* on the escalation request itself (the object, before it is written to
\* JSON) route_and_execute does select the Azure AI agent
EscalationObjectRoutedToAzureAI ==
    HybridEscalationDue =>
        /\ HybridEscalationResponse.raised = ""
        /\ HybridEscalationResponse.value.agent_type = "AzureAI"

\* the gateway executes a request it can read under the decision of
\* determine_routing: an Azure-AI-only request is answered by Azure AI
ReadableAzureAIOnlyRequestToAzureAI ==
    (ExecuteRun
        /\ activity_input.json = "object"
        /\ "request" \in DOMAIN activity_input.members
        /\ activity_input.members.request.members.routing_preference
              = value_of["AZURE_AI_ONLY"]
        /\ "context" \notin DOMAIN activity_input.members.request.members) =>
        activity_result[1].value.members.agent_type = "AzureAI"

CollaborationRun == entry = "multi_agent_collaboration_orchestrator"

\* the collaboration workflow is over: it returned, or an exception left it
CollaborationOver ==
    /\ CollaborationRun
    /\ orchestration.status \in {"completed", "failed"}

\* the orchestration was given a payload that denotes a MultiAgentRequest
CollaborationPayload ==
    /\ orchestration.input.json = "object"
    /\ {"task_description", "required_capabilities", "user_id"}
           \subseteq DOMAIN orchestration.input.members

\* the plan the planning activity returns for the payload of the orchestration
PlannedSteps == plan_agent_collaboration("ctx", orchestration.input).value.items

\* the preference that forces an agent
ForcedPreference ==
    [COPILOT_STUDIO |-> "COPILOT_STUDIO_ONLY", AZURE_AI |-> "AZURE_AI_ONLY"]

\* the agent under which the gateway executes the request built for a step
step_executor(request, step) ==
    determine_routing(routing_service, step_request(request, step)).value.selected_agent

\* C15: for every step of a collaboration plan, of any agent type, the
\* request built for it makes the gateway execute it with the step's own
\* agent; and the collaboration workflow issues one such gateway call per
\* step of its plan, each with a preference that forces the step's agent.
C15_StepsForcedToOwnAgent ==
    /\ GeneralPlanRun =>
          \A k \in 1..Len(returned[1]) :
              step_executor(argument, returned[1][k]) = returned[1][k].agent_type
    /\ (CollaborationOver /\ CollaborationPayload) =>
          /\ Len(GatewayCalls) = Len(PlannedSteps)
          /\ \A k \in 1..Len(GatewayCalls) :
                \E a \in DOMAIN ForcedPreference :
                    /\ value_of[a] = PlannedSteps[k].members.agent_type
                    /\ call_request(GatewayCalls[k]).routing_preference
                          = value_of[ForcedPreference[a]]

\* the steps for Copilot Studio and for Azure AI are forced to their agent
ForcibleStepsForced ==
    GeneralPlanRun =>
        \A k \in 1..Len(returned[1]) :
            returned[1][k].agent_type \in DOMAIN ForcedPreference =>
                step_executor(argument, returned[1][k]) = returned[1][k].agent_type

\* the gateway activity cannot read a request written with to_dict (the
\* form every orchestrator sends): it answers with its Error response
WrittenRequestsGiveError ==
    (ExecuteRun
        /\ activity_input.json = "object"
        /\ "request" \in DOMAIN activity_input.members
        /\ "context" \in DOMAIN activity_input.members.request.members) =>
        /\ activity_result[1].raised = ""
        /\ activity_result[1].value.members.agent_type = "Error"
        /\ activity_result[1].value.members.context
              = [error |-> "issubclass() arg 1 must be a class"]

\* the context of the response the gateway gives to a call
response_context(call) ==
    run_activity(call.activity, call.input).value.members.context

\* context is the overlay of a response's context on a planned one: every
\* key of either, the response's value for a key of both
overlaid(context, planned, response) ==
    /\ DOMAIN planned \cup DOMAIN response \subseteq DOMAIN context
    /\ \A k \in DOMAIN response : context[k] = response[k]
    /\ \A k \in DOMAIN planned \ DOMAIN response : context[k] = planned[k]

\* the capabilities and the context named by the payload of the orchestration
PayloadCapabilityCount == Len(orchestration.input.members.required_capabilities)

PayloadContext == get(orchestration.input.members, "context", EmptyDict)

SampleContexts ==
    {EmptyDict, [stage |-> "plan"], [stage |-> "intake", owner |-> "test-user"]}

\* a plan whose steps are planned with the context c
with_context(plan, c) == [k \in 1..Len(plan) |-> [plan[k] EXCEPT !.input_context = c]]

\* the statement that passes the context on, applied to the general plans,
\* does overlay the response's context on the next step's planned context
\* and leaves the other steps as they are
ContextPassedAsWritten ==
    GeneralPlanRun =>
        \A i \in 0..(Len(returned[1]) - 2), c \in SampleContexts,
           r \in SampleContexts \cup {NoneDict} :
            LET plan == with_context(returned[1], c)
                after == plan_after(plan, i, [context |-> r])
            IN  /\ overlaid(after[i + 2].input_context, c, or_empty(r))
                /\ DOMAIN after[i + 2].input_context = DOMAIN c \cup DOMAIN or_empty(r)
                /\ \A k \in 1..Len(plan) : k # i + 2 => after[k] = plan[k]

\* the items of the list a collaboration returned
ReturnedResponses == orchestration.output[1].items

error_response(item) == item.members.agent_type = "Error"

\* the gateway answers a call with an Error response
failed_call(call) ==
    run_activity(call.activity, call.input).value.members.agent_type = "Error"

\* the endpoint fails and the first step of the plan is Copilot Studio's, so
\* the gateway call of a step fails
StepFailureDue ==
    /\ CollaborationOver
    /\ CollaborationPayload
    /\ copilot_studio.status # 200
    /\ PlannedSteps[1].members.agent_type = value_of["COPILOT_STUDIO"]

GatewayFailureIsAResponse ==
    ExecuteRun =>
        /\ activity_result[1].raised = ""
        /\ (copilot_studio.status # 200
            /\ activity_input.json = "object"
            /\ "request" \in DOMAIN activity_input.members
            /\ activity_input.members.request.members.routing_preference
                  \in {value_of["COPILOT_STUDIO_ONLY"], value_of["PREFER_COPILOT_STUDIO"]}) =>
              activity_result[1].value.members.agent_type = "Error"

\* the collaboration ended because of an exception: one left the
\* orchestrator, or its except block returned the list
CollaborationEndedByException ==
    /\ CollaborationOver
    /\ CollaborationPayload
    /\ \/ orchestration.status = "failed"
       \/ \E k \in 1..Len(error_log) :
              contains(error_log[k], "Error in multi-agent collaboration")

\* C18: when the collaboration workflow ends because of an exception after
\* j steps have produced responses, it returns a list that starts with
\* those j responses, unchanged and in execution order, followed by the
\* synthesized Error response.
C18_PartialResultsKept ==
    CollaborationEndedByException =>
        /\ orchestration.status = "completed"
        /\ Len(ReturnedResponses) = Len(orchestration.responses) + 1
        /\ \A k \in 1..Len(orchestration.responses) :
              ReturnedResponses[k] = to_dict("AgentResponse", orchestration.responses[k])
        /\ error_response(ReturnedResponses[Len(ReturnedResponses)])

SampleResponses ==
    {AgentResponse("Azure AI response to: analyze the data", "AzureAI", "agent-1",
                   None, c, FALSE, None) : c \in SampleContexts}

\* the list the except block is written to return keeps the responses
\* collected so far, in order, and ends with the Error response
ExceptBlockKeepsResponses ==
    CollaborationOver =>
        \A responses \in UNION {[1..n -> SampleResponses] : n \in 0..2} :
            LET returned_list ==
                    dump_responses(Append(responses,
                        collaboration_error_response("issubclass() arg 1 must be a class"))).items
            IN  /\ Len(returned_list) = Len(responses) + 1
                /\ \A k \in 1..Len(responses) :
                      returned_list[k] = to_dict("AgentResponse", responses[k])
                /\ error_response(returned_list[Len(returned_list)])

TopicEnded == Ended("topic_based_conversation_orchestrator")

ManageTopicRun == ActivityRun("manage_topic")

\* the response manage_topic gave to the call of the topic workflow
TopicResponse ==
    run_activity(orchestration.calls[1].activity,
                 orchestration.calls[1].input).value.members

\* the escalation signal: requires_follow_up = true and next_action = "escalate"
signals_escalation(response) ==
    response.requires_follow_up /\ response.next_action = "escalate"

\* C19: the topic workflow escalates (issues a gateway call) if and only if
\* the topic response has requires_follow_up = true and next_action =
\* "escalate"; a topic response that lacks either of the two is returned
\* unmodified, with no gateway call -- also when a started or continued
\* topic comes back with requires_follow_up = false and next_action =
\* "escalate".
C19_TopicEscalationIffSignalled ==
    /\ TopicEnded =>
          IF signals_escalation(TopicResponse)
          THEN Len(GatewayCalls) = 1
          ELSE /\ Len(GatewayCalls) = 0
               /\ orchestration.output[1].members = TopicResponse
    /\ ManageTopicRun =>
          (topic_escalates(activity_result[1].value.members)
              <=> signals_escalation(activity_result[1].value.members))

\* the condition of the topic orchestrator is next_action = "escalate" alone
TopicConditionIsNextActionOnly ==
    ManageTopicRun =>
        (topic_escalates(activity_result[1].value.members)
            <=> activity_result[1].value.members.next_action = "escalate")

\* manage_topic answered a started topic with requires_follow_up = false
\* and next_action = "escalate"
CompletedTopicNamesEscalate ==
    /\ ManageTopicRun
    /\ ~activity_result[1].value.members.requires_follow_up
    /\ activity_result[1].value.members.next_action = "escalate"

\* the topic workflow never returns what manage_topic answered: it ends in
\* the Error response of its except block
TopicWorkflowEndsInError ==
    TopicEnded =>
        /\ orchestration.output[1].members.agent_type = "Error"
        /\ orchestration.output[1].members.agent_id = "system"
        /\ orchestration.output[1].members.context.error
              = "issubclass() arg 1 must be a class"
        /\ TopicResponse.agent_id = "topic-manager"

\* the topic workflow is over (returned or failed) for a payload whose
\* action is ESCALATE
EscalateTopicOver ==
    /\ entry = "topic_based_conversation_orchestrator"
    /\ orchestration.status \in {"completed", "failed"}
    /\ orchestration.input.json = "object"
    /\ get(orchestration.input.members, "action", None) = value_of["ESCALATE"]

\* a gateway call forced to Azure AI: the Azure-AI-only preference in the
\* request entry and Azure AI as the selected agent of the routing entry
forced_to_azure_ai(call) ==
    /\ call_request(call).routing_preference = value_of["AZURE_AI_ONLY"]
    /\ call.input.members.routing.members.selected_agent = value_of["AZURE_AI"]

\* a occurs in s, then b, then c
in_order(s, a, b, c) ==
    \E i \in 0..(Len(s) - Len(a)) :
        /\ SubSeq(s, i + 1, i + Len(a)) = a
        /\ \E j \in (i + Len(a))..(Len(s) - Len(b)) :
              /\ SubSeq(s, j + 1, j + Len(b)) = b
              /\ contains(SubSeq(s, j + Len(b) + 1, Len(s)), c)

\* agent type "Hybrid" and a message made of the topic response's text, the
\* separator marker and the escalation response's text, in this order
EscalatedTopicOutput(output, response, escalation_response) ==
    /\ output.agent_type = "Hybrid"
    /\ in_order(output.message, response.message, "[Escalated Response]",
                escalation_response.message)

\* C20: for every topic request whose action is ESCALATE the topic workflow
\* issues exactly one escalation gateway call, forced to Azure AI, and
\* returns a response with agent_type "Hybrid" whose message holds the topic
\* manager's text, then the separator marker, then the escalation
\* response's text.
C20_EscalateActionGivesHybrid ==
    EscalateTopicOver =>
        /\ orchestration.status = "completed"
        /\ Len(GatewayCalls) = 1
        /\ forced_to_azure_ai(GatewayCalls[1])
        /\ EscalatedTopicOutput(
               orchestration.output[1].members,
               TopicResponse,
               run_activity(GatewayCalls[1].activity,
                            GatewayCalls[1].input).value.members)

\* what the topic manager answers to the request of the workflow, and what
\* the gateway answers to the escalation request built from it
TopicManagerResponse == _manage_topic_async(orchestration.request[1])

TopicEscalationResponse ==
    route_and_execute(routing_service,
                      topic_escalation_request(orchestration.request[1],
                                               TopicManagerResponse.value))

\* the workflow has returned for a request whose action is ESCALATE
EscalateTopicEnded ==
    /\ TopicEnded
    /\ orchestration.request[1].action = "ESCALATE"

\* on the request object itself the pieces are as described: the topic
\* manager signals escalation, the escalation input is forced to Azure AI,
\* the gateway answers as Azure AI and the combination has agent type
\* "Hybrid" and the three parts in order
TopicEscalationAsWritten ==
    EscalateTopicEnded =>
        /\ TopicManagerResponse.raised = ""
        /\ topic_escalates(TopicManagerResponse.value)
        /\ forced_to_azure_ai(
               [input |-> topic_escalation_input(orchestration.request[1],
                                                 TopicManagerResponse.value)])
        /\ TopicEscalationResponse.raised = ""
        /\ TopicEscalationResponse.value.agent_type = "AzureAI"
        /\ EscalatedTopicOutput(
               topic_combined_response(TopicManagerResponse.value,
                                       TopicEscalationResponse.value),
               TopicManagerResponse.value,
               TopicEscalationResponse.value)

\* ... while the workflow ends in the Error response of its except block
\* after the one call of manage_topic
EscalateTopicEndsInError ==
    EscalateTopicEnded =>
        /\ Len(orchestration.calls) = 1
        /\ orchestration.calls[1].activity = "manage_topic"
        /\ orchestration.output[1].members.agent_type = "Error"
        /\ orchestration.output[1].members.message
              = "I encountered an error managing the topic. Please try again."

\* a payload that carries the key parameters fails before the try block
EscalateTopicFailed ==
    /\ EscalateTopicOver
    /\ orchestration.status = "failed"

CombinedRun == entry = "combined_response" /\ returned # <<>>

\* the message of a combined response without its separator tag: what
\* stands before the tag, and what stands after it
around_tag(message, tag) ==
    {<<SubSeq(message, 1, i), SubSeq(message, i + Len(tag) + 1, Len(message))>> :
        i \in {i \in 0..(Len(message) - Len(tag)) :
                  SubSeq(message, i + 1, i + Len(tag)) = tag}}

\* C21: for the same pair (response, escalation response) the topic workflow
\* and the hybrid workflow produce the same merged message and the same
\* merged context, only the agent id differing.
C21_TopicMergeAsHybrid ==
    CombinedRun =>
        /\ returned[1].topic.message = returned[1].hybrid.message
        /\ returned[1].topic.context = returned[1].hybrid.context
        /\ returned[1].topic.agent_id # returned[1].hybrid.agent_id
        /\ [returned[1].topic EXCEPT !.agent_id = "hybrid-routing"] = returned[1].hybrid

\* C21 (amended): for the same pair the two workflows produce the same
\* merged context, agent type "Hybrid" and the same conversation id, and
\* messages that are equal around the separator tag; the tag differs
\* ("[Escalated Response]" in the topic workflow, "[Escalated to Azure AI]"
\* in the hybrid workflow), as does the agent id, and the hybrid response
\* carries the escalation response's requires_follow_up where the topic
\* response carries false.
C21_TopicMergeAsHybridButTag ==
    CombinedRun =>
        /\ returned[1].topic.context = returned[1].hybrid.context
        /\ returned[1].topic.agent_type = "Hybrid"
        /\ returned[1].hybrid.agent_type = "Hybrid"
        /\ returned[1].topic.conversation_id = returned[1].hybrid.conversation_id
        /\ <<argument[1].message \o "\n\n", "\n" \o argument[2].message>>
              \in around_tag(returned[1].topic.message, "[Escalated Response]")
                    \cap around_tag(returned[1].hybrid.message, "[Escalated to Azure AI]")
        /\ returned[1].topic.message # returned[1].hybrid.message
        /\ returned[1].topic.agent_id = "topic-escalation"
        /\ returned[1].hybrid.agent_id = "hybrid-routing"
        /\ returned[1].hybrid.requires_follow_up = argument[2].requires_follow_up
        /\ ~returned[1].topic.requires_follow_up

\* a pair whose contexts share a key has been combined
C21_Witness ==
    /\ CombinedRun
    /\ argument[1].context # NoneDict
    /\ argument[2].context # NoneDict
    /\ DOMAIN argument[1].context \cap DOMAIN argument[2].context # {}
    /\ argument[2].requires_follow_up

\* an orchestration is over: it has returned its output or has failed with
\* an exception that left the generator
OrchestrationOver ==
    /\ orchestration # NoOrchestration
    /\ orchestration.status \in {"completed", "failed"}

\* the response an orchestration returned: its output, or the last element
\* of the list the collaboration orchestrator returns
LastResponse ==
    IF orchestration.output[1].json = "array"
    THEN orchestration.output[1].items[Len(orchestration.output[1].items)].members
    ELSE orchestration.output[1].members

\* a response with agent type "Error", an apology and the error's text in
\* context["error"]
apology(response) ==
    /\ response.agent_type = "Error"
    /\ contains(response.message, "encountered an error")
    /\ contains(response.message, "Please try again.")
    /\ "error" \in DOMAIN response.context
    /\ response.context.error # ""

\* the except block of the orchestrator has written its line to the log
CaughtByOrchestrator ==
    \E k \in 1..Len(error_log) :
        \E line \in {hybrid_error_line, "Error in multi-agent collaboration: ",
                     topic_error_line} :
            /\ Len(error_log[k]) >= Len(line)
            /\ SubSeq(error_log[k], 1, Len(line)) = line

\* C22: each of the three orchestrators always ends by returning a response
\* and never with an unhandled failure: for an error raised at any point of
\* the run, reading the incoming request included, the result is (or ends
\* with) a response with agent type "Error", an apology message and the
\* error's text in context["error"].
C22_OrchestratorsAlwaysReturn ==
    OrchestrationOver =>
        /\ orchestration.status = "completed"
        /\ CaughtByOrchestrator => apology(LastResponse)

\* an exception inside the try block does end in such a response
CaughtErrorGivesApology ==
    (OrchestrationOver /\ orchestration.status = "completed" /\ CaughtByOrchestrator)
        => apology(LastResponse)

\* an exception of the statements before the try block leaves the
\* orchestrator: malformed JSON in any of the three, and every payload
\* from_dict raises on
FailedOutsideTry ==
    OrchestrationOver /\ orchestration.status = "failed"
        => /\ orchestration.calls = <<>>
           /\ orchestration.output = <<>>
           /\ orchestration.failure
                 \in {"JSONDecodeError", "TypeError", "AttributeError", "ValueError"}

HybridFailedOnMalformedJson ==
    /\ entry = "hybrid_agent_conversation_orchestrator"
    /\ orchestration.input = NotJson
    /\ orchestration.status = "failed"

CollaborationFailedOnMalformedJson ==
    /\ entry = "multi_agent_collaboration_orchestrator"
    /\ orchestration.input = NotJson
    /\ orchestration.status = "failed"

TopicFailedOnMalformedJson ==
    /\ entry = "topic_based_conversation_orchestrator"
    /\ orchestration.input = NotJson
    /\ orchestration.status = "failed"

CaughtAndCompleted ==
    OrchestrationOver /\ orchestration.status = "completed" /\ CaughtByOrchestrator

\* manage_topic has run on a payload that names the given action
ManageTopicRunOn(action) ==
    /\ ManageTopicRun
    /\ activity_input.json = "object"
    /\ get(activity_input.members, "action", None) = value_of[action]

\* C23: a RESET topic action behaves as START does: for the same bot id,
\* topic id and parameters the same "start topic" message is posted to the
\* endpoint (same topic key, message and variables) and the answer is mapped
\* to the same AgentResponse.
C23_ResetIsStart ==
    /\ ManageTopicRunOn("RESET") =>
          activity_result[1]
              = manage_topic("ctx", [activity_input EXCEPT
                                        !.members.action = value_of["START"]])
    /\ ManageTopicRun =>
          \A request \in {r \in TopicRequests : r.action = "RESET"} :
              /\ _manage_topic_async(request)
                    = _manage_topic_async([request EXCEPT !.action = "START"])
              /\ Len(_manage_topic_async(request).posted) = 1
              /\ _manage_topic_async(request).posted[1].topic = request.topic_id
              /\ _manage_topic_async(request).posted[1].message
                    = "Start topic: " \o request.topic_id
              /\ _manage_topic_async(request).posted[1].variables = request.parameters

\* manage_topic has restarted a topic: the start message was posted and the
\* endpoint's answer came back as a Copilot Studio response
C23_Witness ==
    /\ ManageTopicRunOn("RESET")
    /\ Len(activity_result[1].posted) = 1
    /\ activity_result[1].posted[1].message = "Start topic: onboarding"
    /\ activity_result[1].value.members.agent_type = "CopilotStudio"
    /\ activity_result[1].value.members.next_action = "escalate"

\* C24: COMPLETE and ESCALATE are terminal for the topic manager: nothing is
\* posted to the endpoint and the response is made by the manager itself,
\* with requires_follow_up = false and no next_action for COMPLETE, and with
\* requires_follow_up = true and next_action = "escalate" for ESCALATE.
C24_CompleteAndEscalateAreTerminal ==
    /\ (ManageTopicRunOn("COMPLETE") /\ "parameters" \notin DOMAIN activity_input.members)
          => /\ activity_result[1].posted = <<>>
             /\ activity_result[1].value.members.agent_type = "CopilotStudio"
             /\ activity_result[1].value.members.message
                   = "Topic " \o activity_input.members.topic_id
                       \o " has been completed successfully."
             /\ ~activity_result[1].value.members.requires_follow_up
             /\ activity_result[1].value.members.next_action = None
    /\ (ManageTopicRunOn("ESCALATE") /\ "parameters" \notin DOMAIN activity_input.members)
          => /\ activity_result[1].posted = <<>>
             /\ activity_result[1].value.members.agent_type = "CopilotStudio"
             /\ activity_result[1].value.members.message
                   = "Topic " \o activity_input.members.topic_id
                       \o " requires escalation to Azure AI for advanced assistance."
             /\ activity_result[1].value.members.requires_follow_up
             /\ activity_result[1].value.members.next_action = "escalate"
    /\ ManageTopicRun =>
          \A request \in {r \in TopicRequests : r.action \in {"COMPLETE", "ESCALATE"}} :
              /\ _manage_topic_async(request).raised = ""
              /\ _manage_topic_async(request).posted = <<>>
              /\ _manage_topic_async(request).value.context = request.parameters
              /\ _manage_topic_async(request).value.requires_follow_up
                    = (request.action = "ESCALATE")
              /\ _manage_topic_async(request).value.next_action
                    = (IF request.action = "ESCALATE" THEN "escalate" ELSE None)

\* manage_topic has answered an ESCALATE action while the endpoint was ready
\* to answer a posted message
C24_Witness ==
    /\ ManageTopicRunOn("ESCALATE")
    /\ copilot_studio.status = 200
    /\ activity_result[1].posted = <<>>
    /\ activity_result[1].value.members.requires_follow_up
    /\ activity_result[1].value.members.next_action = "escalate"

C24_WitnessComplete ==
    /\ ManageTopicRunOn("COMPLETE")
    /\ copilot_studio.status = 200
    /\ activity_result[1].value.members.agent_type = "CopilotStudio"

\* the values of the TopicAction members
TopicActionValues == {value_of[a] : a \in TopicAction}

\* manage_topic has run on a payload whose action is none of the five
ManageTopicRunOnUnknownAction ==
    /\ ManageTopicRun
    /\ activity_input.json = "object"
    /\ {"bot_id", "topic_id", "action"} \subseteq DOMAIN activity_input.members
    /\ activity_input.members.action \notin TopicActionValues

\* request objects whose action is no member of TopicAction
UnknownActionRequests ==
    {TopicManagementRequest("bot-1", "onboarding", a, EmptyDict) : a \in {"PAUSE", None}}

\* C25: a topic request whose action is none of START, CONTINUE, RESET,
\* COMPLETE, ESCALATE is a fatal input error for the topic manager: nothing
\* is posted to the endpoint, none of the five behaviours is taken, and the
\* error is reported to the caller.
C25_UnknownActionIsAnError ==
    /\ ManageTopicRunOnUnknownAction =>
          /\ activity_result[1].posted = <<>>
          /\ activity_result[1].raised = ""
          /\ activity_result[1].value.members.agent_type = "Error"
          /\ activity_result[1].value.members.agent_id = "topic-manager"
          /\ contains(activity_result[1].value.members.context.error,
                      activity_input.members.action)
          /\ activity_result[1].value.members.message
                = "Error managing topic: " \o activity_result[1].value.members.context.error
          /\ activity_result[1].log
                = <<"Error managing topic: " \o activity_result[1].value.members.context.error>>
    /\ ManageTopicRun =>
          \A request \in UnknownActionRequests :
              /\ _manage_topic_async(request).raised = "ValueError"
              /\ _manage_topic_async(request).posted = <<>>
              /\ _manage_topic_async(request).value
                    = "Unknown topic action: " \o request.action

\* manage_topic has turned down the action "pause" while the endpoint was
\* ready to answer a posted message
C25_Witness ==
    /\ ManageTopicRunOnUnknownAction
    /\ copilot_studio.status = 200
    /\ activity_result[1].value.members.context.error
          = "'pause' is not a valid TopicAction"

\* the calls an orchestration has issued and not yet got the result of
InFlight ==
    {k \in 1..Len(orchestration.calls) : orchestration.calls[k].result = <<>>}

\* C26: within one orchestration instance at most one activity call is in
\* flight at any time: a call is issued only when every call issued before
\* has its result.
C26_OneCallInFlight ==
    orchestration # NoOrchestration =>
        /\ Cardinality(InFlight) <= 1
        /\ InFlight \subseteq {Len(orchestration.calls)}
        /\ InFlight # {} =>
              /\ orchestration.status = "awaiting"
              /\ orchestration.call[1] = orchestration.calls[Len(orchestration.calls)]

\* an orchestration is suspended on a call that is in flight
C26_Witness ==
    /\ orchestration # NoOrchestration
    /\ orchestration.status = "awaiting"
    /\ InFlight = {1}
    /\ orchestration.calls[1].activity = "determine_agent_routing"

\* no orchestration issues a second call: each ends, or fails, after at most
\* one activity
AtMostOneCallIssued ==
    orchestration # NoOrchestration => Len(orchestration.calls) <= 1

\* two instances run together
Concurrently == concurrent.peer # <<>>

\* the instance that ran alone before, and the one started along with it
FirstInstance == IF concurrent.current = 1 THEN orchestration ELSE concurrent.peer[1]

SecondInstance == IF concurrent.current = 1 THEN concurrent.peer[1] ELSE orchestration

\* C27: orchestration instances are independent: when two instances run
\* concurrently and their suspend points interleave in any order, the calls
\* an instance issues and its final result are those of its run alone with
\* the same answers of the endpoint; an instance reads nothing the other
\* has written.
C27_InstancesIndependent ==
    Concurrently =>
        /\ FirstInstance.status \in {"completed", "failed"} =>
              Outcome(FirstInstance) = concurrent.alone[1]
        /\ FirstInstance.status \in {"scheduled", "awaiting"} =>
              /\ Len(FirstInstance.calls) <= Len(concurrent.alone[1].calls)
              /\ \A k \in 1..Len(FirstInstance.calls) :
                    /\ FirstInstance.calls[k].activity = concurrent.alone[1].calls[k].activity
                    /\ FirstInstance.calls[k].input = concurrent.alone[1].calls[k].input
        /\ SecondInstance.input = FirstInstance.input =>
              (SecondInstance.status \in {"completed", "failed"} =>
                  Outcome(SecondInstance) = concurrent.alone[1])

\* the first instance has returned as it did alone, while the second one,
\* started with another input before the first was over, is still suspended
C27_Witness ==
    /\ Concurrently
    /\ FirstInstance.status = "completed"
    /\ FirstInstance.calls # <<>>
    /\ SecondInstance.status = "awaiting"
    /\ SecondInstance.input # FirstInstance.input

\* both instances are suspended on a call at the same time
BothSuspended ==
    /\ Concurrently
    /\ FirstInstance.status = "awaiting"
    /\ SecondInstance.status = "awaiting"
    /\ FirstInstance.call[1].result = <<>>
    /\ SecondInstance.call[1].result # <<>>

\* a step of one instance leaves the other instance as it was
StepLeavesPeer ==
    [][(Concurrently /\ concurrent'.current = concurrent.current)
          => concurrent'.peer = concurrent.peer]_vars

\* determine_routing has decided on the AUTO request with the message
\* "Help me create a workflow for approval"
ApprovalWorkflowDecided ==
    /\ AutoRunOn("Help me create a workflow for approval")
    /\ executions # <<>>

\* C28: for the AUTO request with the message "Help me create a workflow for
\* approval" the decision selects Copilot Studio with confidence 0.7 and a
\* reason that cites the structured keywords.
C28_ApprovalWorkflowConfidence07 ==
    ApprovalWorkflowDecided =>
        \A k \in 1..Len(executions) :
            /\ executions[k].decision.selected_agent = "COPILOT_STUDIO"
            /\ executions[k].decision.confidence = 7
            /\ contains(executions[k].decision.reason, "Copilot Studio keywords")

\* C28 (amended): ... the decision selects Copilot Studio with confidence 0.8
\* (0.6 + 0.1 for each of the two keywords "workflow" and "approval") and the
\* reason "Message contains 2 Copilot Studio keywords indicating structured
\* process".
C28_ApprovalWorkflowConfidence08 ==
    ApprovalWorkflowDecided =>
        \A k \in 1..Len(executions) :
            /\ executions[k].decision.selected_agent = "COPILOT_STUDIO"
            /\ executions[k].decision.confidence = 8
            /\ executions[k].decision.reason
                  = "Message contains 2 Copilot Studio keywords indicating structured process"
            /\ keyword_score(copilot_studio_keywords,
                             lower(conversation_request.message)) = 2
            /\ keyword_score(azure_ai_keywords,
                             lower(conversation_request.message)) = 0

C28_Witness ==
    /\ ApprovalWorkflowDecided
    /\ executions[1].decision.confidence = 8
    /\ executions[1].decision.selected_agent = "COPILOT_STUDIO"

\* the response the gateway gives to a call
call_response(call) == run_activity(call.activity, call.input).value

PlanDue ==
    /\ CollaborationOver
    /\ CollaborationPayload
    /\ Len(PlannedSteps) >= 1

\* ... but the workflow ends before its planning call: from_dict raises
\* outside the try block
CollaborationEndsBeforePlanning ==
    (CollaborationOver /\ CollaborationPayload) =>
        /\ orchestration.status = "failed"
        /\ orchestration.failure = "TypeError"
        /\ orchestration.calls = <<>>
        /\ orchestration.output = <<>>

\* the activity calls an instance may issue: three in the hybrid workflow
\* (route, execute, escalate), two in the topic workflow, one planning call
\* and one call per step of the plan in the collaboration workflow
MaxCalls(o) ==
    IF entry = "hybrid_agent_conversation_orchestrator" THEN 3
    ELSE IF entry = "topic_based_conversation_orchestrator" THEN 2
    ELSE 1 + (IF o.collaboration_plan = <<>> THEN 0 ELSE Len(o.collaboration_plan[1]))

\* the instance has returned its terminal response within these calls
TerminalResponse ==
    /\ orchestration # NoOrchestration
    /\ orchestration.status = "completed"
    /\ orchestration.output # <<>>
    /\ Len(orchestration.calls) <= MaxCalls(orchestration)

\* C30: every orchestration instance terminates: provided each activity call
\* eventually returns or fails, the hybrid workflow reaches its terminal
\* response after at most three activity calls, the topic workflow after at
\* most two, and the collaboration workflow after one planning call plus at
\* most one call per step of its plan.
C30_ReachesTerminalResponse ==
    [](orchestration # NoOrchestration => <>TerminalResponse)

\* every instance does come to an end, with or without a response, and
\* stays there
AllOver ==
    /\ orchestration # NoOrchestration
    /\ orchestration.status \in {"completed", "failed"}
    /\ Concurrently => concurrent.peer[1].status \in {"completed", "failed"}

InstancesTerminate ==
    [](orchestration # NoOrchestration => <>[]AllOver)

\* ... within the calls named
CallsBounded ==
    orchestration # NoOrchestration =>
        /\ Len(orchestration.calls) <= MaxCalls(orchestration)
        /\ Concurrently => Len(concurrent.peer[1].calls) <= MaxCalls(concurrent.peer[1])

\* an instance has ended without a response: the exception left the
\* orchestrator before its try block
EndedWithoutResponse ==
    /\ OrchestrationOver
    /\ orchestration.status = "failed"
    /\ orchestration.output = <<>>

----------------------------------------------------------------------------
(* C31: replay *)

\* a replay is under way or over: the variable orchestration holds the
\* orchestrator as run again, replaying[1] the instance as recorded before
Replayed == replaying # <<>>

SameCall(a, b) == a.activity = b.activity /\ a.input = b.input

\* the calls the replay has issued so far are the recorded ones, in order
ReplayIssuesRecordedCalls ==
    \A k \in 1..min(Len(orchestration.calls), Len(replaying[1].calls)) :
        SameCall(orchestration.calls[k], replaying[1].calls[k])

\* C31: the orchestrators are replay-deterministic: run again from the start
\* on the same input and handed the recorded activity outputs, an
\* orchestrator issues the same activity calls with the same inputs, in the
\* same order, and ends with the same result, in whatever environment the
\* new worker process runs (nothing in its control flow reads the clock, a
\* random source or the environment)
C31_ReplayDeterministic ==
    Replayed =>
        /\ ReplayIssuesRecordedCalls
        /\ orchestration.status \in {"completed", "failed"} =>
              /\ Len(replaying[1].calls) <= Len(orchestration.calls)
              /\ replaying[1].status \in {"completed", "failed"}
                    => Outcome(orchestration) = Outcome(replaying[1])

\* a completed instance was replayed to its end by a worker process in
\* another environment, with the endpoint answering otherwise than before
C31_Witness ==
    /\ Replayed
    /\ replaying[1].status = "completed"
    /\ orchestration.status = "completed"
    /\ Len(orchestration.calls) >= 1
    /\ orchestration.calls[1].result # <<>>
    /\ replaying[1].recorded_in[1] # routing_service
    /\ replaying[1].recorded_in[2] # copilot_studio

\* the instance was replayed while its activity was still running: nothing
\* was recorded for the call, the activity runs in the new process
ReplayedInFlight ==
    /\ Replayed
    /\ replaying[1].status = "awaiting"
    /\ replaying[1].call[1].result = <<>>
    /\ orchestration.status = "completed"

\* a replay never runs an activity whose output is in the history: what the
\* orchestrator is handed is the recorded output
ReplayReadsHistory ==
    Replayed =>
        \A k \in 1..min(Len(orchestration.calls), Len(replaying[1].calls)) :
            orchestration.calls[k].result # <<>> /\ replaying[1].calls[k].result # <<>>
                => orchestration.calls[k].result = replaying[1].calls[k].result

----------------------------------------------------------------------------
(* C32: a failing gateway call *)

\* the hybrid workflow has returned for a request on which the gateway
\* fails: the endpoint refuses the message of the agent selected for it
HybridGatewayFailureDue ==
    /\ HybridEnded
    /\ HybridFirstResponse.raised # ""

GatewayFailureCarriesText ==
    ExecuteRun /\ activity_result[1].log # <<>> =>
        /\ activity_result[1].raised = ""
        /\ activity_result[1].value.members.agent_type = "Error"
        /\ activity_result[1].value.members.agent_id = "system"
        /\ "Error executing agent request: "
              \o activity_result[1].value.members.context.error
              = activity_result[1].log[Len(activity_result[1].log)]
        /\ ~activity_result[1].value.members.requires_follow_up
        /\ activity_result[1].value.members.next_action = None

\* the endpoint has refused the message: the gateway activity has returned
\* the Error response with the endpoint's error text
EndpointFailureReported ==
    /\ ExecuteRun
    /\ activity_result[1].posted # <<>>
    /\ activity_result[1].value.members.context.error = "Copilot Studio API error: 500"

\* what the hybrid workflow does on such a request: it ends in the Error
\* response of its own except block, for the TypeError of from_dict, and has
\* called the gateway not once
HybridEndsBeforeGateway ==
    HybridGatewayFailureDue =>
        /\ Len(GatewayCalls) = 0
        /\ orchestration.output[1].members.agent_type = "Error"
        /\ orchestration.output[1].members.context.error
              = "issubclass() arg 1 must be a class"

----------------------------------------------------------------------------
(* C36: the agent of step 2 is the agent selected in step 1 *)

\* the agent that produced a response of the gateway, as a value of AgentType
executing_agent(response) ==
    IF response.agent_type = "CopilotStudio" THEN value_of["COPILOT_STUDIO"]
    ELSE IF response.agent_type = "AzureAI" THEN value_of["AZURE_AI"]
    ELSE IF response.agent_type = "Hybrid" THEN value_of["HYBRID"]
    ELSE None

\* the hybrid workflow has returned for a request that the gateway executes
HybridExecutionDue ==
    /\ HybridEnded
    /\ HybridFirstResponse.raised = ""

GatewayExecuted ==
    /\ ExecuteRun
    /\ activity_input.json = "object"
    /\ "request" \in DOMAIN activity_input.members
    /\ activity_result[1].value.members.agent_type # "Error"

\* the "routing" entry of its input is never read: the activity returns
\* what it returns on the request alone
RoutingEntryNeverRead ==
    ExecuteRun /\ activity_input.json = "object"
               /\ "request" \in DOMAIN activity_input.members =>
        activity_result[1]
            = execute_agent_request(
                  "ctx", JsonObject([request |-> activity_input.members.request]))

\* routing the request again gives the agent that the routing activity
\* selects for the same request
GatewayExecutesWhatRoutingSelects ==
    GatewayExecuted =>
        executing_agent(activity_result[1].value.members)
            = determine_agent_routing("ctx", json_dumps(activity_input.members.request))
                  .value.members.selected_agent

\* the gateway has executed a request with another agent than the decision
\* handed to it names
ExecutedAgainstHandedDecision ==
    /\ GatewayExecuted
    /\ "routing" \in DOMAIN activity_input.members
    /\ activity_input.members.routing.json = "object"
    /\ "selected_agent" \in DOMAIN activity_input.members.routing.members
    /\ activity_input.members.routing.members.selected_agent
          # executing_agent(activity_result[1].value.members)

\* what the hybrid workflow does on such a request: its one call is the
\* routing activity's, whose decision it cannot read
HybridEndsAfterRouting ==
    HybridExecutionDue =>
        /\ Len(orchestration.calls) = 1
        /\ orchestration.calls[1].activity = "determine_agent_routing"
        /\ orchestration.output[1].members.agent_type = "Error"

----------------------------------------------------------------------------
(* C37: the agents the routing engine selects *)

SelectedByRouting == {"COPILOT_STUDIO", "AZURE_AI"}

\* the error of the last branch of route_and_execute
NotSupportedErrors == {"Agent type AgentType." \o a \o " not supported" : a \in AgentType}

\* a response as the gateway activity returns it comes from Copilot Studio
\* or from Azure AI, or reports an error other than that of the last branch
ExecutedByOneOfTwo(response) ==
    /\ response.agent_type \in {"CopilotStudio", "AzureAI", "Error"}
    /\ response.agent_type = "Error" => response.context.error \notin NotSupportedErrors

\* C37: the routing engine only ever selects COPILOT_STUDIO or AZURE_AI: in
\* no workflow and for no request does the gateway execute the
\* POWER_AUTOMATE or the HYBRID agent, so the hybrid branch of
\* route_and_execute and its "not supported" error are never reached,
\* whatever decision is handed to the gateway activity.
C37_GatewayExecutesTwoAgentsOnly ==
    /\ \A i \in 1..Len(executions) :
          executions[i].decision.selected_agent \in SelectedByRouting
    /\ \A i \in 1..Len(other_decision) :
          other_decision[i].selected_agent \in SelectedByRouting
    /\ \A r \in RoutingActivityResults :
          r.value.members.selected_agent \in {value_of[a] : a \in SelectedByRouting}
    /\ ExecuteRun => ExecutedByOneOfTwo(activity_result[1].value.members)
    /\ orchestration # NoOrchestration =>
          \A k \in 1..Len(orchestration.calls) :
              gateway_call(orchestration.calls[k]) /\ orchestration.calls[k].result # <<>>
                  => ExecutedByOneOfTwo(orchestration.calls[k].result[1].value.members)

\* the gateway activity was handed a step of a plan with the decision
\* power_automate and has executed the request with one of the two agents
C37_Witness ==
    /\ GatewayExecuted
    /\ activity_input.members.routing.members.selected_agent = value_of["POWER_AUTOMATE"]
    /\ executing_agent(activity_result[1].value.members)
          \in {value_of[a] : a \in SelectedByRouting}

\* the rules have decided on a message with as many keywords of the one
\* list as of the other
TieDecidedByRules ==
    /\ entry = "determine_routing"
    /\ Len(executions) > 0
    /\ conversation_request.routing_preference = "AUTO"
    /\ conversation_request.message # None
    /\ StructuredCount(conversation_request.message) = 1
    /\ ReasoningCount(conversation_request.message) = 1

----------------------------------------------------------------------------
(* C38, C39: after the escalation *)

\* the escalation response of the combined pair asks for what would start an
\* escalation, were it a first response
EscalationSignalsAgain ==
    /\ CombinedRun
    /\ argument[2].requires_follow_up
    /\ argument[2].next_action = "escalate"

\* the most gateway calls an instance can issue: the hybrid and the topic
\* workflow one call to execute and one to escalate (the topic workflow
\* starts with manage_topic, which is no gateway call)
MostGatewayCalls ==
    IF entry = "hybrid_agent_conversation_orchestrator" THEN 2
    ELSE IF entry = "topic_based_conversation_orchestrator" THEN 1
    ELSE Len(orchestration.calls)

\* C38: an orchestration instance escalates at most once: the escalation
\* response is never examined for an escalation signal, so that even one
\* with requires_follow_up = true and next_action = "escalate" leads to no
\* further gateway call, and the merged response names no next action.
C38_EscalatesAtMostOnce ==
    /\ orchestration # NoOrchestration => Len(GatewayCalls) <= MostGatewayCalls
    /\ CombinedRun =>
          /\ returned[1].hybrid.next_action = None
          /\ returned[1].topic.next_action = None
          /\ ~topic_escalates(returned[1].topic)
          /\ \A d \in {follow_up_escalation_routing, topic_escalation_routing} :
                ~hybrid_escalates(returned[1].hybrid, d)

\* both orchestrators have combined a pair whose escalation response asks
\* for a follow-up and names "escalate"; the hybrid response keeps the flag
C38_Witness ==
    /\ EscalationSignalsAgain
    /\ returned[1].hybrid.requires_follow_up
    /\ hybrid_escalates(argument[2],
                        AgentRoutingDecision("COPILOT_STUDIO", "", 10, EmptyDict))
    /\ topic_escalates(argument[2])

\* C39: after an escalation in the topic workflow the merged response has
\* requires_follow_up = false whatever the flag of the escalation response
\* is, while the hybrid workflow copies the flag of the escalation response.
C39_TopicMergeRequiresNoFollowUp ==
    CombinedRun =>
        /\ returned[1].topic.requires_follow_up = FALSE
        /\ to_dict("AgentResponse", returned[1].topic).members.requires_follow_up = FALSE
        /\ returned[1].hybrid.requires_follow_up = argument[2].requires_follow_up

\* the escalation response of the pair asks for a follow-up: the merged
\* responses of the two orchestrators differ in the flag
C39_Witness ==
    /\ CombinedRun
    /\ argument[2].requires_follow_up
    /\ returned[1].hybrid.requires_follow_up
    /\ ~returned[1].topic.requires_follow_up

----------------------------------------------------------------------------
(* C40: the context of the request and the first step *)

\* the planner activity has returned a plan for a payload that gives a
\* context
PlannedWithContext ==
    /\ PlanRun
    /\ activity_input.json = "object"
    /\ "context" \in DOMAIN activity_input.members
    /\ activity_result[1].raised = ""

\* the context of the gateway request of step 1 of a returned plan: the
\* orchestrator passes context=step.input_context
StepOneContext == activity_result[1].value.items[1].members.input_context

\* C40: the context supplied in the MultiAgentRequest reaches the first
\* step: for every plan the planner returns, every key of the request's
\* context is a key of the context of the gateway request of step 1.
C40_RequestContextReachesStepOne ==
    /\ PlannedWithContext =>
          DOMAIN or_empty(activity_input.members.context) \subseteq DOMAIN StepOneContext
    /\ GeneralPlanRun =>
          DOMAIN or_empty(argument.context)
              \subseteq DOMAIN or_empty(step_request(argument, returned[1][1]).context)

\* C40 (amended): the context of the request does not reach the first step
\* of a general plan or of a fallback plan: their steps are built without
\* input_context, so the context of the gateway request of step 1 is empty
\* whatever keys the request's context holds.
C40_RequestContextStopsAtPlanner ==
    /\ PlanRun /\ activity_result[1].raised = "" => StepOneContext = EmptyDict
    /\ GeneralPlanRun =>
          \A k \in 1..Len(returned[1]) :
              step_request(argument, returned[1][k]).context = EmptyDict

\* the planner activity was given a context that holds keys and has
\* returned its fallback plan, and the general plan was built for a request
\* whose context holds keys
C40_Witness ==
    \/ /\ PlannedWithContext
       /\ DOMAIN or_empty(activity_input.members.context) # {}
       /\ FallbackPlan(activity_result[1].value)
    \/ /\ GeneralPlanRun
       /\ DOMAIN argument.context # {}

C40_WitnessGeneralPlan ==
    /\ GeneralPlanRun
    /\ "stage" \in DOMAIN argument.context
    /\ Len(returned[1]) >= 2

C40_WitnessFallbackPlan ==
    /\ PlannedWithContext
    /\ "stage" \in DOMAIN activity_input.members.context
    /\ FallbackPlan(activity_result[1].value)

\* only the step the capability loop builds is given the request's context
CapabilityStepKeepsContext ==
    \A r \in PayloadRequests, c \in PayloadCapabilities :
        capability_step(r, c).input_context = r.context

---------------------------------------------------------------------------
(* The portable samples (samples/portable-sdks/python): three orchestrators
   run by the Durable Task scheduler.  The variable task_hub holds what the
   scheduler keeps for the one instance: its clock, the tasks the
   orchestrator created, the order in which they completed, the events
   raised for it, and where the orchestrator function stands.  Times are
   whole ticks (hours in human-interaction, seconds in monitoring).         *)

\* the clock ticks one by one up to MaxNow (and jumps to a timer beyond it)
MaxNow == 3
\* the longest list of work items
MaxItems == 3
\* how many times the client raises approval_response for the instance
MaxEvents == 2

\* human-interaction/client.py, create_approval_request: the input_data it
\* schedules (timeout_hours is any number), and the same without
\* timeout_hours
ApprovalRequests ==
    {[request_id |-> "req-1", requester |-> "test-user", item |-> "laptop"]}
    \cup {[request_id |-> "req-1", requester |-> "test-user", item |-> "laptop",
           timeout_hours |-> h] : h \in -1..2}

\* human-interaction/client.py, respond_to_approval: the data of the event
\* (response_time left out: nothing reads it), and an event without fields
ApprovalResponses ==
    {[is_approved |-> b, approver |-> "manager", comments |-> ""] : b \in BOOLEAN}
    \cup {EmptyDict}

\* monitoring/client.py: job_data with integers from the command line, and
\* job_data that leaves the two periods to the orchestrator's defaults
MonitoredJobs ==
    {[job_id |-> "job-1"]}
    \cup {[job_id |-> "job-1", polling_interval_seconds |-> p, timeout_seconds |-> t] :
             p \in -1..2, t \in -1..MaxNow}

\* fan-out-fan-in/client.py sends list(range(1, count + 1)); any list of
\* small integers here
WorkItemLists == UNION {[1..n -> 1..MaxItems] : n \in 0..MaxItems}

\* a task as the orchestrator holds it: not complete while result is <<>>
PendingTask(kind, name, input, fire_at) ==
    [kind |-> kind, name |-> name, input |-> input, fire_at |-> fire_at,
     result |-> <<>>]

is_complete(t) == t.result # <<>>

get_result(t) == t.result[1]

\* the instance as scheduled by the client; when_all_of_nothing is what the
\* installed SDK does with task.when_all([]): some releases complete it at
\* once, others never do
ScheduledInstance(when_all_of_nothing) ==
    [now |-> 0, runtime_status |-> "PENDING", tasks |-> <<>>, completed |-> <<>>,
     events |-> <<>>, raised |-> 0, custom_status |-> <<>>, position |-> "start",
     awaiting |-> <<>>, locals |-> <<>>, output |-> <<>>,
     when_all_of_nothing |-> when_all_of_nothing]

\* ctx.call_activity(name, input=input)
call_activity(hub, name, input) ==
    [hub EXCEPT !.tasks = Append(@, PendingTask("activity", name, input, 0))]

\* ctx.create_timer(fire_at): a timer is pending when created, even when
\* fire_at is not after the current time
create_timer(hub, fire_at) ==
    [hub EXCEPT !.tasks = Append(@, PendingTask("timer", "", <<>>, fire_at))]

\* ctx.wait_for_external_event(name): complete at once with an event that
\* was raised before anything waited for it
wait_for_external_event(hub, name) ==
    IF hub.events = <<>>
    THEN [hub EXCEPT !.tasks = Append(@, PendingTask("event", name, <<>>, 0))]
    ELSE [hub EXCEPT !.tasks = Append(@, [kind |-> "event", name |-> name,
                                          input |-> <<>>, fire_at |-> 0,
                                          result |-> <<Head(hub.events)>>]),
                     !.completed = Append(@, Len(hub.tasks) + 1),
                     !.events = Tail(@)]

\* the task created last
last_task(hub) == Len(hub.tasks)

\* `yield t` on tasks that are not complete: the function stops at position
yield(hub, position, tasks) ==
    [hub EXCEPT !.position = position, !.awaiting = tasks]

\* `return result`
return(hub, result) ==
    [hub EXCEPT !.position = "returned", !.awaiting = <<>>,
                !.runtime_status = "COMPLETED", !.output = <<result>>]

\* task.when_any(tasks) is complete as soon as one of tasks is
any_complete(hub, tasks) == \E j \in 1..Len(tasks) : is_complete(hub.tasks[tasks[j]])

\* task.when_all(tasks) is complete when every one of tasks is
all_complete(hub, tasks) == \A j \in 1..Len(tasks) : is_complete(hub.tasks[tasks[j]])

\* variant: the first task of the list that is complete, whichever of them
\* completed first
when_any_first_listed(hub, tasks) ==
    tasks[CHOOSE j \in 1..Len(tasks) :
             /\ is_complete(hub.tasks[tasks[j]])
             /\ \A h \in 1..(j - 1) : ~is_complete(hub.tasks[tasks[h]])]

\* the result of task.when_any(tasks): the task of tasks that completed first
when_any(hub, tasks) ==
    hub.completed[CHOOSE i \in 1..Len(hub.completed) :
                     /\ \E j \in 1..Len(tasks) : tasks[j] = hub.completed[i]
                     /\ \A h \in 1..(i - 1) :
                           \A j \in 1..Len(tasks) : tasks[j] # hub.completed[h]]

\* variant: the results in the order in which the tasks completed
when_all_as_completed(hub, tasks) ==
    [j \in 1..Len(tasks) |->
        get_result(hub.tasks[SelectSeq(hub.completed,
                                       LAMBDA i : \E h \in 1..Len(tasks) : tasks[h] = i)[j]])]

\* the result of task.when_all(tasks): the results in the order of tasks
when_all(hub, tasks) == [j \in 1..Len(tasks) |-> get_result(hub.tasks[tasks[j]])]

\* human-interaction/worker.py
submit_approval_request(now, request_data) ==
    [request_id |-> get(request_data, "request_id", None),
     status |-> "Pending",
     submitted_at |-> now,
     approval_url |-> "http://localhost:8000/api/approvals/"
                      \o get(request_data, "request_id", None)]

approval_status(is_approved) == IF is_approved THEN "Approved" ELSE "Rejected"

\* a missing is_approved is None, which counts as false
process_approval(now, approval_data) ==
    [request_id |-> get(approval_data, "request_id", None),
     status |-> approval_status(get(approval_data, "is_approved", FALSE)),
     processed_at |-> now,
     approver |-> get(approval_data, "approver", None)]

\* human_interaction_orchestrator from `if winner_task == approval_task` on
after_when_any(hub, input_data, winner_task) ==
    IF winner_task = hub.locals.approval_task
    THEN yield(call_activity(hub, "process_approval",
                   [request_id |-> get(input_data, "request_id", None),
                    is_approved |->
                        get(get_result(hub.tasks[hub.locals.approval_task]),
                            "is_approved", FALSE),
                    approver |->
                        get(get_result(hub.tasks[hub.locals.approval_task]),
                            "approver", "Unknown")]),
               "process_approval", <<last_task(hub) + 1>>)
    ELSE return(hub, [request_id |-> get(input_data, "request_id", None),
                      status |-> "Timeout",
                      timed_out_at |-> hub.now])

\* human_interaction_orchestrator from set_custom_status up to when_any
race(hub, input_data) ==
    wait_for_external_event(
        create_timer([hub EXCEPT !.custom_status =
                                     <<get_result(hub.tasks[hub.awaiting[1]])>>,
                                 !.locals = [timeout_task |-> last_task(hub) + 1,
                                             approval_task |-> last_task(hub) + 2]],
                     hub.now + get(input_data, "timeout_hours", 24)),
        "approval_response")

race_tasks(hub) == <<hub.locals.approval_task, hub.locals.timeout_task>>

\* the orchestrator function, run from where it stands to its next stop
human_interaction_orchestrator(hub, input_data) ==
    CASE hub.position = "start" ->
            yield(call_activity(hub, "submit_approval_request",
                      [request_id |-> get(input_data, "request_id", None),
                       requester |-> get(input_data, "requester", None),
                       item |-> get(input_data, "item", None)]),
                  "submit_approval_request", <<last_task(hub) + 1>>)
      [] hub.position = "submit_approval_request" ->
            IF any_complete(race(hub, input_data), race_tasks(race(hub, input_data)))
            THEN after_when_any(race(hub, input_data), input_data,
                                when_any(race(hub, input_data),
                                         race_tasks(race(hub, input_data))))
            ELSE yield(race(hub, input_data), "when_any",
                       race_tasks(race(hub, input_data)))
      [] hub.position = "when_any" ->
            after_when_any(hub, input_data, when_any(hub, hub.awaiting))
      [] hub.position = "process_approval" ->
            return(hub, get_result(hub.tasks[hub.awaiting[1]]))

\* monitoring/worker.py
job_state(check_count) == IF check_count >= 3 THEN "Completed" ELSE "Running"

check_job_status(now, job_data) ==
    [job_id |-> get(job_data, "job_id", "unknown"),
     status |-> job_state(get(job_data, "check_count", 0)),
     check_count |-> get(job_data, "check_count", 0) + 1,
     last_check_time |-> now]

\* monitoring_job_orchestrator: the top of the loop
check(hub, job_data) ==
    yield(call_activity(hub, "check_job_status",
              [job_id |-> get(job_data, "job_id", None),
               check_count |-> get(hub.locals.job_status, "check_count", 0)]),
          "check_job_status", <<last_task(hub) + 1>>)

\* monitoring_job_orchestrator: the return statement
monitoring_result(hub, job_data, job_status) ==
    [job_id |-> get(job_data, "job_id", None),
     final_status |-> job_status.status,
     checks_performed |-> job_status.check_count,
     monitoring_duration_seconds |-> hub.now - hub.locals.start_time]

\* variant: the next check is one polling interval on, whatever the
\* expiration time
next_check_time_unclamped(current_time, polling_interval, expiration_time) ==
    current_time + polling_interval

next_check_time(current_time, polling_interval, expiration_time) ==
    IF current_time + polling_interval > expiration_time
    THEN expiration_time
    ELSE current_time + polling_interval

\* monitoring_job_orchestrator: the loop body after the check returned
checked(hub, job_data, job_status) ==
    IF job_status.status = "Completed"
    THEN return(hub, monitoring_result(hub, job_data, job_status))
    ELSE IF hub.now >= hub.locals.expiration_time
    THEN return(hub, monitoring_result(hub, job_data,
                                       [job_status EXCEPT !.status = "Timeout"]))
    ELSE yield(create_timer(hub,
                   next_check_time(hub.now,
                                   get(job_data, "polling_interval_seconds", 5),
                                   hub.locals.expiration_time)),
               "create_timer", <<last_task(hub) + 1>>)

monitoring_job_orchestrator(hub, job_data) ==
    CASE hub.position = "start" ->
            check([hub EXCEPT !.locals =
                       [start_time |-> hub.now,
                        expiration_time |->
                            hub.now + get(job_data, "timeout_seconds", 30),
                        job_status |-> [job_id |-> get(job_data, "job_id", None),
                                        status |-> "Unknown",
                                        check_count |-> 0]]],
                  job_data)
      [] hub.position = "check_job_status" ->
            checked([hub EXCEPT !.custom_status =
                                    <<get_result(hub.tasks[hub.awaiting[1]])>>,
                                !.locals.job_status =
                                    get_result(hub.tasks[hub.awaiting[1]])],
                    job_data, get_result(hub.tasks[hub.awaiting[1]]))
      [] hub.position = "create_timer" -> check(hub, job_data)

\* fan-out-fan-in/worker.py
process_work_item(item) == [item |-> item, result |-> item * item]

RECURSIVE sum(_)
sum(results) ==
    IF results = <<>> THEN 0 ELSE Head(results).result + sum(Tail(results))

\* sum_result / len(results) is a true division: the quotient is kept as
\* its dividend and divisor
aggregate_results(results) ==
    [total_items |-> Len(results),
     sum |-> sum(results),
     average |-> IF results # <<>>
                 THEN [dividend |-> sum(results), divisor |-> Len(results)]
                 ELSE [dividend |-> 0, divisor |-> 1]]

\* the loop that creates one task for each work item
RECURSIVE parallel_tasks(_, _)
parallel_tasks(hub, work_items) ==
    IF work_items = <<>>
    THEN hub
    ELSE parallel_tasks(call_activity(hub, "process_work_item", Head(work_items)),
                        Tail(work_items))

\* fan_out_fan_in_orchestrator from the result of when_all on
fan_in(hub, tasks) ==
    yield(call_activity(hub, "aggregate_results", when_all(hub, tasks)),
          "aggregate_results", <<last_task(hub) + 1>>)

fan_out_fan_in_orchestrator(hub, work_items) ==
    CASE hub.position = "start" ->
            IF work_items = <<>> /\ hub.when_all_of_nothing = "completes"
            THEN fan_in(hub, <<>>)
            ELSE yield(parallel_tasks(hub, work_items), "when_all",
                       [j \in 1..Len(work_items) |-> j])
      [] hub.position = "when_all" -> fan_in(hub, hub.awaiting)
      [] hub.position = "aggregate_results" ->
            return(hub, get_result(hub.tasks[hub.awaiting[1]]))

\* the worker runs the activity function registered under the task's name
portable_activity(t, now) ==
    CASE t.name = "submit_approval_request" -> submit_approval_request(now, t.input)
      [] t.name = "process_approval" -> process_approval(now, t.input)
      [] t.name = "check_job_status" -> check_job_status(now, t.input)
      [] t.name = "process_work_item" -> process_work_item(t.input)
      [] t.name = "aggregate_results" -> aggregate_results(t.input)

\* the worker runs the orchestrator function registered under the name
portable_orchestrator(name, hub, input) ==
    CASE name = "human_interaction_orchestrator" ->
            human_interaction_orchestrator(hub, input)
      [] name = "monitoring_job_orchestrator" ->
            monitoring_job_orchestrator(hub, input)
      [] name = "fan_out_fan_in_orchestrator" ->
            fan_out_fan_in_orchestrator(hub, input)

\* the tasks the orchestrator waits for let it go on
ready(hub) ==
    /\ hub.awaiting # <<>>
    /\ IF hub.position = "when_any"
       THEN any_complete(hub, hub.awaiting)
       ELSE all_complete(hub, hub.awaiting)

\* task i completes with result r: the scheduler appends it to the history
completes(hub, i, r) ==
    [hub EXCEPT !.tasks[i].result = <<r>>, !.completed = Append(@, i)]

PendingTasks(hub, kind) ==
    {i \in 1..Len(hub.tasks) : hub.tasks[i].kind = kind /\ ~is_complete(hub.tasks[i])}

\* what the copilot sample's variables hold while a portable sample runs
NoCopilotSample ==
    /\ conversation_request = NoRequest
    /\ activity_input = NoInput
    /\ orchestration = NoOrchestration
    /\ concurrent = NoConcurrency
    /\ replaying = <<>>
    /\ executions = <<>>
    /\ other_decision = <<>>
    /\ activity_result = <<>>
    /\ returned = <<>>
    /\ error_log = <<>>

\* the client schedules one instance of one of the three orchestrators
PortableInit ==
    /\ \/ /\ entry = "human_interaction_orchestrator"
          /\ argument \in ApprovalRequests
       \/ /\ entry = "monitoring_job_orchestrator"
          /\ argument \in MonitoredJobs
       \/ /\ entry = "fan_out_fan_in_orchestrator"
          /\ argument \in WorkItemLists
    /\ task_hub \in {ScheduledInstance(w) :
                        w \in IF argument = <<>> /\ entry = "fan_out_fan_in_orchestrator"
                              THEN {"completes", "waits"}
                              ELSE {"completes"}}
    /\ routing_service = AgentRoutingService(None, "agent-1")
    /\ copilot_studio = NoEndpoint
    /\ NoCopilotSample

PortableUnchanged ==
    UNCHANGED <<inputs, routing_service, executions, other_decision, activity_result,
                returned, orchestration, concurrent, replaying, error_log>>

\* the worker runs the orchestrator function from its first line
PortableStart ==
    /\ task_hub # NoTaskHub
    /\ task_hub.runtime_status = "PENDING"
    /\ task_hub' = portable_orchestrator(entry, [task_hub EXCEPT !.runtime_status =
                                                     "RUNNING"], argument)
    /\ PortableUnchanged

\* a worker finishes one of the activities that are under way
ActivityCompletes ==
    /\ task_hub # NoTaskHub
    /\ task_hub.runtime_status = "RUNNING"
    /\ \E i \in PendingTasks(task_hub, "activity") :
          task_hub' = completes(task_hub, i,
                                portable_activity(task_hub.tasks[i], task_hub.now))
    /\ PortableUnchanged

\* a timer fires at its time or later
TimerFires ==
    /\ task_hub # NoTaskHub
    /\ task_hub.runtime_status = "RUNNING"
    /\ \E i \in PendingTasks(task_hub, "timer") :
          /\ task_hub.now >= task_hub.tasks[i].fire_at
          /\ task_hub' = completes(task_hub, i, None)
    /\ PortableUnchanged

\* client.raise_orchestration_event(instance_id, "approval_response", data):
\* the event completes the task that waits for it, is kept for a later
\* wait_for_external_event, or finds the instance over and is dropped
RaiseEvent ==
    /\ task_hub # NoTaskHub
    /\ entry = "human_interaction_orchestrator"
    /\ task_hub.raised < MaxEvents
    /\ \E data \in ApprovalResponses :
          task_hub' =
              IF task_hub.runtime_status = "COMPLETED"
              THEN [task_hub EXCEPT !.raised = @ + 1]
              ELSE IF PendingTasks(task_hub, "event") # {}
              THEN completes([task_hub EXCEPT !.raised = @ + 1],
                             CHOOSE i \in PendingTasks(task_hub, "event") : TRUE, data)
              ELSE [task_hub EXCEPT !.raised = @ + 1, !.events = Append(@, data)]
    /\ PortableUnchanged

\* time passes: one tick, or up to the time of a timer
TimePasses ==
    /\ task_hub # NoTaskHub
    /\ task_hub.runtime_status # "COMPLETED"
    /\ \E t \in (IF task_hub.now < MaxNow THEN {task_hub.now + 1} ELSE {})
                \cup {task_hub.tasks[i].fire_at : i \in PendingTasks(task_hub, "timer")} :
          /\ t > task_hub.now
          /\ task_hub' = [task_hub EXCEPT !.now = t]
    /\ PortableUnchanged

\* the worker runs the orchestrator function on from the yield it stopped at
PortableResume ==
    /\ task_hub # NoTaskHub
    /\ task_hub.runtime_status = "RUNNING"
    /\ ready(task_hub)
    /\ task_hub' = portable_orchestrator(entry, task_hub, argument)
    /\ PortableUnchanged

PortableNext ==
    \/ PortableStart
    \/ ActivityCompletes
    \/ TimerFires
    \/ RaiseEvent
    \/ TimePasses
    \/ PortableResume

PortableSpec == PortableInit /\ [][PortableNext]_vars

---------------------------------------------------------------------------
(* C33: the approval event and the timeout timer race *)

HumanInteraction == entry = "human_interaction_orchestrator"

\* the tasks the orchestrator created for the activity of a name
TasksNamed(name) ==
    {i \in 1..Len(task_hub.tasks) : task_hub.tasks[i].name = name}

\* the place of task i in the order of completion, 0 while it is pending
CompletedAs(i) ==
    IF \E h \in 1..Len(task_hub.completed) : task_hub.completed[h] = i
    THEN CHOOSE h \in 1..Len(task_hub.completed) : task_hub.completed[h] = i
    ELSE 0

\* task i completed, and before task j did
CompletedFirst(i, j) ==
    /\ CompletedAs(i) > 0
    /\ CompletedAs(j) = 0 \/ CompletedAs(i) < CompletedAs(j)

\* the orchestrator is past `yield task.when_any(...)`
RaceDecided ==
    /\ HumanInteraction
    /\ task_hub.position \in {"process_approval", "returned"}

ApprovalWon ==
    /\ RaceDecided
    /\ CompletedFirst(task_hub.locals.approval_task, task_hub.locals.timeout_task)

TimerWon ==
    /\ RaceDecided
    /\ CompletedFirst(task_hub.locals.timeout_task, task_hub.locals.approval_task)

\* the data of the event that completed the approval task
ApprovalData == get_result(task_hub.tasks[task_hub.locals.approval_task])

RaceHasOneOutcome ==
    /\ RaceDecided => (ApprovalWon # TimerWon)
    /\ Cardinality(TasksNamed("process_approval")) <= 1
    /\ ApprovalWon =>
          /\ Cardinality(TasksNamed("process_approval")) = 1
          /\ task_hub.runtime_status = "COMPLETED" =>
                /\ task_hub.output[1].status \in {"Approved", "Rejected"}
                /\ task_hub.output[1].status =
                       approval_status(get(ApprovalData, "is_approved", FALSE))
    /\ TimerWon =>
          /\ TasksNamed("process_approval") = {}
          /\ task_hub.runtime_status = "COMPLETED"
          /\ task_hub.output[1].status = "Timeout"

\* nothing completes, and no timer or event task exists, before the
\* submit_approval_request activity completed
SubmittedFirst ==
    /\ task_hub.completed # <<>> =>
          /\ task_hub.completed[1] = 1
          /\ task_hub.tasks[1].name = "submit_approval_request"
    /\ \A i \in 1..Len(task_hub.tasks) :
          task_hub.tasks[i].kind \in {"timer", "event"} =>
             /\ i > 1
             /\ is_complete(task_hub.tasks[1])
             /\ task_hub.tasks[1].name = "submit_approval_request"

\* a step taken once the instance is over leaves its result and tasks alone
ResultIsFinal ==
    task_hub.runtime_status = "COMPLETED" =>
       /\ task_hub'.runtime_status = "COMPLETED"
       /\ task_hub'.output = task_hub.output
       /\ task_hub'.tasks = task_hub.tasks

\* C33: in the human-interaction orchestration the approval event and the
\* timeout timer race and exactly one outcome is produced: if the approval
\* event completes first, process_approval is called exactly once and the
\* result status is "Approved" or "Rejected"; if the timer fires first, the
\* result status is "Timeout", process_approval is never called, and an
\* approval event raised afterwards changes nothing; submit_approval_request
\* completes before the timer and the event task exist
C33_ApprovalRacesTimeout ==
    /\ [](HumanInteraction => RaceHasOneOutcome /\ SubmittedFirst)
    /\ [][HumanInteraction => ResultIsFinal]_vars

\* the timer won, and an approval event was raised after the instance was over
C33_Witness ==
    /\ TimerWon
    /\ task_hub.runtime_status = "COMPLETED"
    /\ task_hub.raised > 0
    /\ task_hub.events = <<>>
    /\ ~is_complete(task_hub.tasks[task_hub.locals.approval_task])

\* the approval won and the timer fired while process_approval was under way
ApprovalWonTimerFiredLater ==
    /\ ApprovalWon
    /\ task_hub.runtime_status = "COMPLETED"
    /\ CompletedAs(task_hub.locals.timeout_task) > 0
    /\ task_hub.output[1].status = "Approved"

\* the timer fired first and the event arrived before the orchestrator ran
\* again
TimerWonEventCompletedToo ==
    /\ TimerWon
    /\ CompletedAs(task_hub.locals.approval_task) > 0

\* an event raised before the orchestrator waited for it wins over a timer
\* whose time had come when it was created
EarlyEventBeatsDueTimer ==
    /\ ApprovalWon
    /\ task_hub.tasks[task_hub.locals.timeout_task].fire_at <= 0
    /\ task_hub.output # <<>>
    /\ task_hub.output[1].status = "Rejected"

---------------------------------------------------------------------------
(* C34: the monitoring loop *)

Monitoring == entry = "monitoring_job_orchestrator"

MonitoringStarted == Monitoring /\ task_hub.runtime_status # "PENDING"

\* the results of the checks made so far, in the order of the checks
RECURSIVE CheckResults(_)
CheckResults(tasks) ==
    IF tasks = <<>>
    THEN <<>>
    ELSE IF Head(tasks).name = "check_job_status" /\ is_complete(Head(tasks))
    THEN <<get_result(Head(tasks))>> \o CheckResults(Tail(tasks))
    ELSE CheckResults(Tail(tasks))

\* start + timeout
ExpirationTime ==
    task_hub.locals.start_time + get(argument, "timeout_seconds", 30)

\* at least one check and at most four; no timer later than start + timeout
ChecksAndTimersBounded ==
    /\ Cardinality(TasksNamed("check_job_status")) \in 1..4
    /\ \A i \in 1..Len(task_hub.tasks) :
          task_hub.tasks[i].kind = "timer" => task_hub.tasks[i].fire_at <= ExpirationTime
    /\ \A j \in 1..Len(CheckResults(task_hub.tasks)) :
          /\ CheckResults(task_hub.tasks)[j].check_count = j
          /\ CheckResults(task_hub.tasks)[j].status = "Completed" <=> j = 4

\* the instance is over with the result of its last check
MonitoringResult ==
    task_hub.runtime_status = "COMPLETED" =>
       /\ task_hub.output[1].final_status \in {"Completed", "Timeout"}
       /\ task_hub.output[1].checks_performed = Len(CheckResults(task_hub.tasks))
       /\ task_hub.output[1].checks_performed =
              Cardinality(TasksNamed("check_job_status"))
       /\ task_hub.output[1].final_status = "Completed" <=>
              CheckResults(task_hub.tasks)[Len(CheckResults(task_hub.tasks))].status
                  = "Completed"
       /\ task_hub.output[1].final_status = "Timeout" => task_hub.now >= ExpirationTime

\* the orchestrator runs on with the result of a check: the loop ends if and
\* only if the check reports Completed or the time is at or past start +
\* timeout
LoopEndsAtFirstEnd ==
    (/\ task_hub.position = "check_job_status"
     /\ task_hub'.position # "check_job_status") =>
       IF get_result(task_hub.tasks[task_hub.awaiting[1]]).status = "Completed"
       THEN /\ task_hub'.runtime_status = "COMPLETED"
            /\ task_hub'.output[1].final_status = "Completed"
       ELSE IF task_hub.now >= ExpirationTime
       THEN /\ task_hub'.runtime_status = "COMPLETED"
            /\ task_hub'.output[1].final_status = "Timeout"
       ELSE /\ task_hub'.runtime_status = "RUNNING"
            /\ task_hub'.position = "create_timer"
            /\ Len(task_hub'.tasks) = Len(task_hub.tasks) + 1

\* C34: the monitoring orchestration checks the job until it completes or
\* the timeout is reached: the loop ends at the first check that reports
\* "Completed" or after which the orchestration time is at or past start +
\* timeout, with final_status "Completed" or "Timeout"; at least one check is
\* made, no timer is scheduled later than the expiration time, and with
\* check_job_status as it is there are at most four checks, for every polling
\* interval and timeout
C34_MonitoringLoop ==
    /\ [](MonitoringStarted => ChecksAndTimersBounded /\ MonitoringResult)
    /\ [][Monitoring => LoopEndsAtFirstEnd]_vars

\* timed out at the third check, whose timer was cut down to the expiration
\* time
C34_Witness ==
    /\ Monitoring
    /\ task_hub.runtime_status = "COMPLETED"
    /\ task_hub.output[1].final_status = "Timeout"
    /\ task_hub.output[1].checks_performed = 3
    /\ \E i \in 1..Len(task_hub.tasks) :
          /\ task_hub.tasks[i].kind = "timer"
          /\ task_hub.tasks[i].fire_at = ExpirationTime
          /\ task_hub.tasks[i - 2].kind = "timer"
          /\ task_hub.tasks[i].fire_at - task_hub.tasks[i - 2].fire_at
                 < argument.polling_interval_seconds

\* completed at the fourth check
CompletedAtFourthCheck ==
    /\ Monitoring
    /\ task_hub.runtime_status = "COMPLETED"
    /\ task_hub.output[1].final_status = "Completed"
    /\ task_hub.output[1].checks_performed = 4

\* completed at the fourth check with the default periods
CompletedWithDefaults ==
    /\ CompletedAtFourthCheck
    /\ argument = [job_id |-> "job-1"]
    /\ task_hub.output[1].monitoring_duration_seconds >= 15

\* a timeout that is over at the start ends the loop after one check
TimedOutAtFirstCheck ==
    /\ Monitoring
    /\ task_hub.runtime_status = "COMPLETED"
    /\ task_hub.output[1].final_status = "Timeout"
    /\ task_hub.output[1].checks_performed = 1

\* four checks with timers in the past (a negative polling interval)
CompletedWithNegativeInterval ==
    /\ CompletedAtFourthCheck
    /\ get(argument, "polling_interval_seconds", 5) < 0

---------------------------------------------------------------------------
(* C35: fan-out and fan-in *)

FanOutFanIn == entry = "fan_out_fan_in_orchestrator"

\* the sum of the squares of the work items
RECURSIVE SumOfSquares(_)
SumOfSquares(work_items) ==
    IF work_items = <<>>
    THEN 0
    ELSE Head(work_items) * Head(work_items) + SumOfSquares(Tail(work_items))

\* aggregate_results is called at most once, when every process_work_item
\* task is complete, with the result of work item j in place j
AggregatedOnceAfterAll ==
    /\ Cardinality(TasksNamed("aggregate_results")) <= 1
    /\ \A a \in TasksNamed("aggregate_results") :
          /\ \A i \in TasksNamed("process_work_item") :
                /\ is_complete(task_hub.tasks[i])
                /\ i < a
          /\ Cardinality(TasksNamed("process_work_item")) = Len(argument)
          /\ Len(task_hub.tasks[a].input) = Len(argument)
          /\ \A j \in 1..Len(argument) :
                /\ task_hub.tasks[a].input[j].item = argument[j]
                /\ task_hub.tasks[a].input[j] = get_result(task_hub.tasks[j])

\* the result is that of the one call, and depends on the work items only
AggregateOfWorkItems ==
    task_hub.runtime_status = "COMPLETED" =>
       /\ Cardinality(TasksNamed("aggregate_results")) = 1
       /\ task_hub.output[1].total_items = Len(argument)
       /\ task_hub.output[1].sum = SumOfSquares(argument)

\* C35: in the fan-out/fan-in orchestration aggregate_results is invoked
\* exactly once and only after every process_work_item task has completed;
\* its input holds one result per work item, and the aggregated total_items
\* and sum are the same for every order in which the parallel tasks complete
C35_AggregatesOnceAfterFanOut ==
    FanOutFanIn /\ task_hub.runtime_status # "PENDING" =>
       AggregatedOnceAfterAll /\ AggregateOfWorkItems

\* three different work items whose tasks completed last to first
C35_Witness ==
    /\ FanOutFanIn
    /\ task_hub.runtime_status = "COMPLETED"
    /\ argument = <<1, 2, 3>>
    /\ SubSeq(task_hub.completed, 1, 3) = <<3, 2, 1>>
    /\ task_hub.output[1].sum = 14

\* no work items, with an SDK that completes when_all([]) at once
AggregateOfNothing ==
    /\ FanOutFanIn
    /\ task_hub.runtime_status = "COMPLETED"
    /\ argument = <<>>
    /\ task_hub.output[1].total_items = 0

\* no work items, with an SDK that leaves when_all([]) pending: the
\* orchestrator is never run again
WaitsForNothing ==
    /\ FanOutFanIn
    /\ task_hub.runtime_status = "RUNNING"
    /\ task_hub.tasks = <<>>
    /\ task_hub.position = "when_all"

====
